---- MODULE Spec2Model ----
(***************************************************************************)
(* A model of passmngr's encrypted-vault persistence (src/src/crypto.rs,   *)
(* src/src/storage.rs, src/src/model.rs) and of the session that uses it   *)
(* (src/src/app.rs, src/src/main.rs).                                      *)
(*                                                                         *)
(* Cryptography is modelled symbolically: a derived key is the term        *)
(* (passphrase, salt, costs), a ciphertext is the term (key, nonce,        *)
(* plaintext) together with the set of bit positions that were flipped     *)
(* after encryption, and the operating system's generator never repeats a  *)
(* draw.  Files are inodes reached through names, so that a writer's open  *)
(* descriptor follows the inode across a rename.                           *)
(***************************************************************************)
EXTENDS Integers, Sequences, FiniteSets, TLC

\* ------------------------------------------------------------------------
\* Bounds of the model
\* ------------------------------------------------------------------------
MaxSaves == 2
MaxFlips == 1
TagBits == 2
MaxInput == 2
MaxQuery == 1
MaxUnlock == 1
MaxForm == 1
MaxUuids == 3
MaxClock == 3
MaxIdle == 2

\* ------------------------------------------------------------------------
\* Program constants (crypto.rs)
\* ------------------------------------------------------------------------
KEY_SIZE == 32
NONCE_SIZE == 12
SALT_SIZE == 16

\* ------------------------------------------------------------------------
\* model.rs: Entry and Vault
\* ------------------------------------------------------------------------
\* A String is the sequence of its characters.
None == [some |-> FALSE, v |-> <<>>]
Some(s) == [some |-> TRUE, v |-> s]

Entry(id, created, modified, name, username, password, url, notes, tags) ==
    [id |-> id, created |-> created, modified |-> modified, name |-> name,
     username |-> username, password |-> password, url |-> url,
     notes |-> notes, tags |-> tags]

Vault(version, entries) == [version |-> version, entries |-> entries]

VaultNew == Vault(1, <<>>)

\* The entries the inputs are built from: between them every field takes
\* two values, Some("") occurs next to None, and the timestamps differ.
GitHub == Entry(1, 1, 1, <<"G", "h">>, <<"u">>, <<"x">>, None, None, <<>>)
GitLab == Entry(2, 1, 2, <<"G", "l">>, <<>>, <<"y">>, Some(<<"g", "l">>), Some(<<>>),
                << <<"w">> >>)

\* The vaults saved: the new vault, and the two orders of two entries.
VaultPool ==
    {VaultNew, Vault(1, <<GitHub, GitLab>>), Vault(2, <<GitLab, GitHub>>)}

\* Passphrases are strings, modelled as sequences of characters.
Passphrases == {<<"a">>, <<"a", "b">>}

\* ------------------------------------------------------------------------
\* Strings (std::string::String, str)
\* ------------------------------------------------------------------------
UPPER == <<"A", "B", "C", "D", "E", "F", "G", "H", "I", "J", "K", "L", "M",
           "N", "O", "P", "Q", "R", "S", "T", "U", "V", "W", "X", "Y", "Z">>
LOWER == <<"a", "b", "c", "d", "e", "f", "g", "h", "i", "j", "k", "l", "m",
           "n", "o", "p", "q", "r", "s", "t", "u", "v", "w", "x", "y", "z">>

\* The Greek capital sigma (U+03A3), small sigma (U+03C3) and final small
\* sigma (U+03C2) are characters too, written here by name.
SIGMA == "SIGMA"
sigma == "sigma"
final_sigma == "final_sigma"

\* char::to_lowercase
LowerChar(c) ==
    IF \E i \in 1..Len(UPPER) : UPPER[i] = c
    THEN LOWER[CHOOSE i \in 1..Len(UPPER) : UPPER[i] = c]
    ELSE IF c = SIGMA THEN sigma
    ELSE c

\* The Unicode properties Cased and Case_Ignorable, over the characters
\* used here: the letters are cased; the apostrophe, the full stop and the
\* colon are ignorable.
Cased(c) ==
    \/ \E i \in 1..Len(UPPER) : c = UPPER[i] \/ c = LOWER[i]
    \/ c \in {SIGMA, sigma, final_sigma}

CaseIgnorable(c) == c \in {"'", ".", ":"}

\* The next character that is not ignorable is there and is cased.
RECURSIVE CaseIgnorableThenCased(_)
CaseIgnorableThenCased(s) ==
    IF s = <<>> THEN FALSE
    ELSE IF CaseIgnorable(Head(s)) THEN CaseIgnorableThenCased(Tail(s))
    ELSE Cased(Head(s))

Rev(s) == [i \in 1..Len(s) |-> s[Len(s) + 1 - i]]

\* str::to_lowercase: each character by char::to_lowercase, but a capital
\* sigma at the end of a word (after a cased letter, not before one)
\* becomes the final sigma.
ToLowercase(s) ==
    [i \in 1..Len(s) |->
        IF s[i] = SIGMA
        THEN IF /\ CaseIgnorableThenCased(Rev(SubSeq(s, 1, i - 1)))
                /\ ~CaseIgnorableThenCased(SubSeq(s, i + 1, Len(s)))
             THEN final_sigma
             ELSE sigma
        ELSE LowerChar(s[i])]

\* str::contains: the empty pattern is found in every string.
Contains(s, q) == \E i \in 0..(Len(s) - Len(q)) : SubSeq(s, i + 1, i + Len(q)) = q

\* str::starts_with, the pattern first
IsPrefix(s, t) == Len(s) <= Len(t) /\ s = SubSeq(t, 1, Len(s))

IsWhitespace(c) == c = " "

RECURSIVE TrimStart(_)
TrimStart(s) ==
    IF s # <<>> /\ IsWhitespace(Head(s)) THEN TrimStart(Tail(s)) ELSE s

RECURSIVE TrimEnd(_)
TrimEnd(s) ==
    IF s # <<>> /\ IsWhitespace(s[Len(s)])
    THEN TrimEnd(SubSeq(s, 1, Len(s) - 1))
    ELSE s

Trim(s) == TrimEnd(TrimStart(s))

\* String::push and String::pop
Push(s, c) == Append(s, c)
Pop(s) == IF s = <<>> THEN s ELSE SubSeq(s, 1, Len(s) - 1)

\* str::split: the pieces between the separators, one piece more than
\* there are separators.
RECURSIVE Split(_, _)
Split(s, sep) ==
    IF \E i \in 1..Len(s) : s[i] = sep
    THEN LET i == CHOOSE k \in 1..Len(s) :
                      s[k] = sep /\ \A j \in 1..(k - 1) : s[j] # sep
         IN  <<SubSeq(s, 1, i - 1)>> \o Split(SubSeq(s, i + 1, Len(s)), sep)
    ELSE <<s>>

\* [String]::join
RECURSIVE Join(_, _)
Join(parts, sep) ==
    IF parts = <<>> THEN <<>>
    ELSE IF Len(parts) = 1 THEN parts[1]
    ELSE parts[1] \o sep \o Join(Tail(parts), sep)

Min(a, b) == IF a < b THEN a ELSE b
SaturatingSub(a, b) == IF a > b THEN a - b ELSE 0

\* ------------------------------------------------------------------------
\* model.rs: the operations of Entry and Vault.  A Uuid is a positive
\* number, a DateTime the number of the clock reading that gave it.
\* ------------------------------------------------------------------------
EntryNew(id, now, name, username, password, url, notes, tags) ==
    Entry(id, now, now, name, username, password, url, notes, tags)

\* A touch that makes the entry look newly created.
EntryTouchRecreates(e, now) == [e EXCEPT !.modified = now, !.created = now]

EntryTouch(e, now) == [e EXCEPT !.modified = now]

EntryMatches(e, query) ==
    LET q == ToLowercase(query)
        name_match == Contains(ToLowercase(e.name), q)
        username_match == Contains(ToLowercase(e.username), q)
        url_match == e.url.some /\ Contains(ToLowercase(e.url.v), q)
        notes_match == e.notes.some /\ Contains(ToLowercase(e.notes.v), q)
        tags_match == \E i \in 1..Len(e.tags) : Contains(ToLowercase(e.tags[i]), q)
    IN  name_match \/ username_match \/ url_match \/ notes_match \/ tags_match

VaultAddEntry(vault, entry) == [vault EXCEPT !.entries = Append(@, entry)]

\* iter().position: the first index holding the id, 0 when none does.
Position(entries, id) ==
    IF \E i \in 1..Len(entries) : entries[i].id = id
    THEN CHOOSE i \in 1..Len(entries) :
             entries[i].id = id /\ \A j \in 1..(i - 1) : entries[j].id # id
    ELSE 0

RemoveAt(entries, pos) ==
    SubSeq(entries, 1, pos - 1) \o SubSeq(entries, pos + 1, Len(entries))

\* A removal by Vec::swap_remove, which puts the last entry in the place
\* of the one taken out.
VaultSwapRemoveEntry(vault, id) ==
    LET pos == Position(vault.entries, id)
        last == Len(vault.entries)
    IN  IF pos = 0 THEN [vault |-> vault, removed |-> None]
        ELSE [vault |-> [vault EXCEPT !.entries =
                            [i \in 1..(last - 1) |->
                                IF i = pos THEN vault.entries[last]
                                ELSE vault.entries[i]]],
              removed |-> Some(vault.entries[pos])]

\* Vault::remove_entry: the vault left, and the entry taken out of it.
VaultRemoveEntry(vault, id) ==
    LET pos == Position(vault.entries, id)
    IN  IF pos = 0 THEN [vault |-> vault, removed |-> None]
        ELSE [vault |-> [vault EXCEPT !.entries = RemoveAt(@, pos)],
              removed |-> Some(vault.entries[pos])]

VaultGetEntry(vault, id) ==
    LET pos == Position(vault.entries, id)
    IN  IF pos = 0 THEN None ELSE Some(vault.entries[pos])

VaultSearch(vault, query) ==
    IF query = <<>> THEN vault.entries
    ELSE SelectSeq(vault.entries, LAMBDA e : EntryMatches(e, query))

Ids(entries) == [i \in 1..Len(entries) |-> entries[i].id]

\* ------------------------------------------------------------------------
\* serde_json over Vault (storage.rs:53, storage.rs:61): the plaintext is a
\* flat sequence of typed tokens, parsed back by recursive descent.
\* ------------------------------------------------------------------------
Tok(t, n, s) == [t |-> t, n |-> n, s |-> s]

OptTok(o) == IF o.some THEN Tok("str", 0, o.v) ELSE Tok("null", 0, <<>>)

\* An encoder that writes the creation time in both timestamp fields.
EntryTokensStale(e) ==
    << Tok("uuid", e.id, <<>>), Tok("time", e.created, <<>>), Tok("time", e.created, <<>>),
       Tok("str", 0, e.name), Tok("str", 0, e.username), Tok("str", 0, e.password),
       OptTok(e.url), OptTok(e.notes), Tok("arr", Len(e.tags), <<>>) >>
    \o [i \in 1..Len(e.tags) |-> Tok("str", 0, e.tags[i])]

EntryTokens(e) ==
    << Tok("uuid", e.id, <<>>), Tok("time", e.created, <<>>), Tok("time", e.modified, <<>>),
       Tok("str", 0, e.name), Tok("str", 0, e.username), Tok("str", 0, e.password),
       OptTok(e.url), OptTok(e.notes), Tok("arr", Len(e.tags), <<>>) >>
    \o [i \in 1..Len(e.tags) |-> Tok("str", 0, e.tags[i])]

RECURSIVE EntriesTokens(_)
EntriesTokens(es) ==
    IF es = <<>> THEN <<>> ELSE EntryTokens(Head(es)) \o EntriesTokens(Tail(es))

ToVec(vault) ==
    << Tok("u32", vault.version, <<>>), Tok("arr", Len(vault.entries), <<>>) >>
    \o EntriesTokens(vault.entries)

ParseFail == [ok |-> FALSE, entries |-> <<>>, next |-> 0]

ParseOpt(tok) == IF tok.t = "null" THEN None ELSE Some(tok.s)

ParseEntry(toks, p) ==
    IF p + 8 > Len(toks) THEN [ok |-> FALSE, next |-> 0]
    ELSE LET k == toks[p + 8].n
         IN  IF /\ toks[p].t = "uuid"
                /\ toks[p + 1].t = "time"
                /\ toks[p + 2].t = "time"
                /\ \A i \in 3..5 : toks[p + i].t = "str"
                /\ \A i \in 6..7 : toks[p + i].t \in {"str", "null"}
                /\ toks[p + 8].t = "arr"
                /\ p + 8 + k <= Len(toks)
                /\ \A i \in 1..k : toks[p + 8 + i].t = "str"
             THEN [ok |-> TRUE, next |-> p + 9 + k,
                   entry |-> Entry(toks[p].n, toks[p + 1].n, toks[p + 2].n,
                                   toks[p + 3].s, toks[p + 4].s, toks[p + 5].s,
                                   ParseOpt(toks[p + 6]), ParseOpt(toks[p + 7]),
                                   [i \in 1..k |-> toks[p + 8 + i].s])]
             ELSE [ok |-> FALSE, next |-> 0]

RECURSIVE ParseEntries(_, _, _)
ParseEntries(toks, p, k) ==
    IF k = 0 THEN [ok |-> TRUE, entries |-> <<>>, next |-> p]
    ELSE LET e == ParseEntry(toks, p)
         IN  IF ~e.ok THEN ParseFail
             ELSE LET rest == ParseEntries(toks, e.next, k - 1)
                  IN  IF ~rest.ok THEN ParseFail
                      ELSE [ok |-> TRUE, entries |-> <<e.entry>> \o rest.entries,
                            next |-> rest.next]

Ok(v) == [ok |-> TRUE, err |-> "", val |-> v]
Err(e) == [ok |-> FALSE, err |-> e, val |-> <<>>]

FromSlice(toks) ==
    IF Len(toks) < 2 \/ toks[1].t # "u32" \/ toks[2].t # "arr"
    THEN Err("Serialization")
    ELSE LET r == ParseEntries(toks, 3, toks[2].n)
         IN  IF r.ok /\ r.next = Len(toks) + 1
             THEN Ok(Vault(toks[1].n, r.entries))
             ELSE Err("Serialization")


\* ------------------------------------------------------------------------
\* crypto.rs
\* ------------------------------------------------------------------------
\* A byte string of the given length whose content is the draw-th output
\* of OsRng (draw 0: no random content).
Bytes(len, draw) == [len |-> len, draw |-> draw]

\* Parameters whose salt is never filled from OsRng.
KdfParamsZeroSalt(draw) ==
    [algorithm |-> "argon2id", salt |-> Bytes(SALT_SIZE, 0),
     time_cost |-> 3, memory_cost |-> 65536, parallelism |-> 4]

KdfParamsNew(draw) ==
    [algorithm |-> "argon2id", salt |-> Bytes(SALT_SIZE, draw),
     time_cost |-> 3, memory_cost |-> 65536, parallelism |-> 4]

\* Cipher parameters that name another algorithm.
CipherParamsOtherName(draw) ==
    [algorithm |-> "xchacha20poly1305", nonce |-> Bytes(NONCE_SIZE, draw)]

CipherParamsNew(draw) ==
    [algorithm |-> "chacha20poly1305", nonce |-> Bytes(NONCE_SIZE, draw)]

NoKey == [pw |-> <<>>, salt |-> Bytes(0, 0), t |-> 0, m |-> 0, p |-> 0, len |-> 0]

\* ParamsBuilder::build (crypto.rs:132-138) accepts the costs only within
\* Argon2's limits: at least one lane, one pass and 8 KiB for each lane.
ParamsOk(params) ==
    /\ params.parallelism >= 1
    /\ params.time_cost >= 1
    /\ params.memory_cost >= 8 * params.parallelism

\* SaltString::encode_b64 and hash_password (crypto.rs:143-148) accept a
\* salt of 8 to 48 bytes.
SaltOk(params) == params.salt.len >= 8 /\ params.salt.len <= 48

\* A derivation that hashes the empty string in place of the passphrase.
DeriveNoPassword(password, params) ==
    IF ~ParamsOk(params) THEN [ok |-> FALSE, err |-> "Parameter", key |-> NoKey]
    ELSE IF ~SaltOk(params) THEN [ok |-> FALSE, err |-> "Derivation", key |-> NoKey]
    ELSE [ok |-> TRUE, err |-> "",
          key |-> [pw |-> <<>>, salt |-> params.salt, t |-> params.time_cost,
                   m |-> params.memory_cost, p |-> params.parallelism,
                   len |-> KEY_SIZE]]

\* A derivation that never looks at the costs.
DeriveUnchecked(password, params) ==
    [ok |-> TRUE, err |-> "",
     key |-> [pw |-> password, salt |-> params.salt, t |-> params.time_cost,
              m |-> params.memory_cost, p |-> params.parallelism,
              len |-> KEY_SIZE]]

Derive(password, params) ==
    IF ~ParamsOk(params) THEN [ok |-> FALSE, err |-> "Parameter", key |-> NoKey]
    ELSE IF ~SaltOk(params) THEN [ok |-> FALSE, err |-> "Derivation", key |-> NoKey]
    ELSE [ok |-> TRUE, err |-> "",
          key |-> [pw |-> password, salt |-> params.salt, t |-> params.time_cost,
                   m |-> params.memory_cost, p |-> params.parallelism,
                   len |-> KEY_SIZE]]

NoCiphertext == [key |-> NoKey, nonce |-> Bytes(0, 0), pt |-> <<>>, flips |-> {}]

\* An encryption that takes a nonce of any length.
EncryptAnyNonce(key, plaintext, cipher_params) ==
    [ok |-> TRUE, err |-> "",
     ct |-> [key |-> key, nonce |-> cipher_params.nonce, pt |-> plaintext,
             flips |-> {}]]

Encrypt(key, plaintext, cipher_params) ==
    IF cipher_params.nonce.len # NONCE_SIZE
    THEN [ok |-> FALSE, err |-> "NonceSize", ct |-> NoCiphertext]
    ELSE [ok |-> TRUE, err |-> "",
          ct |-> [key |-> key, nonce |-> cipher_params.nonce, pt |-> plaintext,
                  flips |-> {}]]

\* The ciphertext is the encrypted payload followed by the Poly1305 tag.
PayloadBits(ct) == 1..Len(ct.pt)
CtBits(ct) == 1..(Len(ct.pt) + TagBits)

\* A decryption that compares the tag over the payload alone, so that a
\* changed tag passes.
DecryptPayloadOnly(key, ct, cipher_params) ==
    IF cipher_params.nonce.len # NONCE_SIZE
    THEN [ok |-> FALSE, err |-> "NonceSize", pt |-> <<>>]
    ELSE IF ct.key = key /\ ct.nonce = cipher_params.nonce
            /\ ct.flips \cap PayloadBits(ct) = {}
         THEN [ok |-> TRUE, err |-> "", pt |-> ct.pt]
         ELSE [ok |-> FALSE, err |-> "Authentication", pt |-> <<>>]

\* A decryption that reports a changed ciphertext apart from a wrong key.
DecryptTellsCause(key, ct, cipher_params) ==
    IF cipher_params.nonce.len # NONCE_SIZE
    THEN [ok |-> FALSE, err |-> "NonceSize", pt |-> <<>>]
    ELSE IF ct.key = key /\ ct.nonce = cipher_params.nonce /\ ct.flips = {}
         THEN [ok |-> TRUE, err |-> "", pt |-> ct.pt]
         ELSE IF ct.flips # {}
         THEN [ok |-> FALSE, err |-> "Tampered", pt |-> <<>>]
         ELSE [ok |-> FALSE, err |-> "Authentication", pt |-> <<>>]

\* The tag verifies only for the ciphertext the same key and nonce produced.
Decrypt(key, ct, cipher_params) ==
    IF cipher_params.nonce.len # NONCE_SIZE
    THEN [ok |-> FALSE, err |-> "NonceSize", pt |-> <<>>]
    ELSE IF ct.key = key /\ ct.nonce = cipher_params.nonce /\ ct.flips = {}
         THEN [ok |-> TRUE, err |-> "", pt |-> ct.pt]
         ELSE [ok |-> FALSE, err |-> "Authentication", pt |-> <<>>]

\* The buffers that hold the 32 key bytes when derive returns Ok, each with
\* whether its type zero-fills it when it is dropped: the PasswordHash and
\* the Output copied out of it (crypto.rs:146-152) are plain values of the
\* argon2 crate and derive never zero-fills them; EncryptionKey derives
\* ZeroizeOnDrop (crypto.rs:123).
DeriveBuffers ==
    {[buffer |-> "hash", zeroize_on_drop |-> FALSE],
     [buffer |-> "hash_output", zeroize_on_drop |-> FALSE],
     [buffer |-> "EncryptionKey.key", zeroize_on_drop |-> TRUE]}

\* What a buffer holds once its owner has gone out of scope.
Dropped(b) ==
    [buffer |-> b.buffer, holds |-> IF b.zeroize_on_drop THEN "zeros" ELSE "key"]

\* The memory that held the key, after the function that called derive has
\* returned (by its last line or by `?`): every buffer has been dropped.
\* A derive that failed on its parameters filled none.
KeyMemory(derived) == IF derived THEN {Dropped(b) : b \in DeriveBuffers} ELSE {}

\* ------------------------------------------------------------------------
\* storage.rs: the container and the files
\* ------------------------------------------------------------------------
VaultFile(version, kdf, cipher, ciphertext) ==
    [version |-> version, kdf |-> kdf, cipher |-> cipher, ciphertext |-> ciphertext]

NoFile == VaultFile(0, KdfParamsNew(0), CipherParamsNew(0), NoCiphertext)

Path(stem, ext) == [stem |-> stem, ext |-> ext]
WithExtension(path, ext) == [path EXCEPT !.ext = ext]

VaultEnc == Path("vault", "enc")
VaultTmp == Path("vault", "tmp")
TargetPaths == {VaultEnc, VaultTmp}
RacePaths == {VaultEnc}
Paths == TargetPaths \cup {WithExtension(p, "tmp") : p \in TargetPaths}

Writers == {1, 2}
InodeIds == 1..(Cardinality(Paths) + Cardinality(Writers))

\* What an inode holds: nothing (free), an empty file, the bytes of one
\* container, or bytes that are no complete container (torn).
Free == [kind |-> "free", file |-> NoFile, len |-> 0]
Empty == [kind |-> "empty", file |-> NoFile, len |-> 0]
FileLen(file) == Len(file.ciphertext.pt) + TagBits
Full(file) == [kind |-> "full", file |-> file, len |-> FileLen(file)]
Torn(len) == [kind |-> "torn", file |-> NoFile, len |-> len]

Range(f) == {f[a] : a \in DOMAIN f}

\* An inode no name and no descriptor refers to is released.
Gc(nm, ino, fds) ==
    [i \in InodeIds |-> IF i \in Range(nm) \cup Range(fds) THEN ino[i] ELSE Free]

FreeInode(nm, fds) ==
    CHOOSE i \in InodeIds :
        /\ i \notin Range(nm) \cup Range(fds)
        /\ \A j \in InodeIds : j < i => j \in Range(nm) \cup Range(fds)

\* write_all from offset 0 onto what the inode holds: bytes already there
\* beyond the end of the new ones stay.
WriteAll(old, file) ==
    IF old.len <= FileLen(file) THEN Full(file) ELSE Torn(old.len)

\* A write cut short leaves a proper prefix (the shortest and the longest
\* stand for all of them), again over what was there.
PartialWrites(old, file) ==
    {Torn(IF old.len > n THEN old.len ELSE n) : n \in {1, FileLen(file) - 1}}

\* fs::read of a path: the content, or Free when no such file exists.
ReadPath(nm, ino, path) == IF nm[path] = 0 THEN Free ELSE ino[nm[path]]

\* VaultFile::load, with the steps it went through.
LoadResult(ok, err, vault, steps) ==
    [ok |-> ok, err |-> err, vault |-> vault, steps |-> steps]

NoVault == Vault(0, <<>>)

\* A load that looks at the version only after decrypting.
LoadVersionLast(content, password) ==
    IF content.kind = "free"
    THEN LoadResult(FALSE, "Io", NoVault, <<"read">>)
    ELSE IF content.kind # "full"
    THEN LoadResult(FALSE, "Serialization", NoVault, <<"read", "parse">>)
    ELSE LET vault_file == content.file
             key == Derive(password, vault_file.kdf)
             plaintext == Decrypt(key.key, vault_file.ciphertext, vault_file.cipher)
             vault == FromSlice(plaintext.pt)
         IN  IF ~key.ok
             THEN LoadResult(FALSE, key.err, NoVault, <<"read", "parse", "derive">>)
             ELSE IF ~plaintext.ok
             THEN LoadResult(FALSE, plaintext.err, NoVault,
                             <<"read", "parse", "derive", "decrypt">>)
             ELSE IF vault_file.version # 1
             THEN LoadResult(FALSE, "UnsupportedVersion", NoVault,
                             <<"read", "parse", "derive", "decrypt", "version">>)
             ELSE IF ~vault.ok
             THEN LoadResult(FALSE, vault.err, NoVault,
                             <<"read", "parse", "derive", "decrypt", "version",
                               "deserialize">>)
             ELSE LoadResult(TRUE, "", vault.val,
                             <<"read", "parse", "derive", "decrypt", "version",
                               "deserialize">>)

Load(content, password) ==
    IF content.kind = "free"
    THEN LoadResult(FALSE, "Io", NoVault, <<"read">>)
    ELSE IF content.kind # "full"
    THEN LoadResult(FALSE, "Serialization", NoVault, <<"read", "parse">>)
    ELSE LET vault_file == content.file
             key == Derive(password, vault_file.kdf)
             plaintext == Decrypt(key.key, vault_file.ciphertext, vault_file.cipher)
             vault == FromSlice(plaintext.pt)
         IN  IF vault_file.version # 1
             THEN LoadResult(FALSE, "UnsupportedVersion", NoVault,
                             <<"read", "parse", "version">>)
             ELSE IF ~key.ok
             THEN LoadResult(FALSE, key.err, NoVault,
                             <<"read", "parse", "version", "derive">>)
             ELSE IF ~plaintext.ok
             THEN LoadResult(FALSE, plaintext.err, NoVault,
                             <<"read", "parse", "version", "derive", "decrypt">>)
             ELSE IF ~vault.ok
             THEN LoadResult(FALSE, vault.err, NoVault,
                             <<"read", "parse", "version", "derive", "decrypt",
                               "deserialize">>)
             ELSE LoadResult(TRUE, "", vault.val,
                             <<"read", "parse", "version", "derive", "decrypt",
                               "deserialize">>)

LoadAt(nm, ino, path, password) == Load(ReadPath(nm, ino, path), password)

\* VaultFile::save up to the container (storage.rs:61-77), with the calls
\* it made: the two draws are the next two outputs of OsRng.
SaveBuild(vault, password, drawn) ==
    LET plaintext == ToVec(vault)
        kdf_params == KdfParamsNew(drawn + 1)
        cipher_params == CipherParamsNew(drawn + 2)
        key == Derive(password, kdf_params)
        ciphertext == Encrypt(key.key, plaintext, cipher_params)
        derived == <<"to_vec", "KdfParams::new", "CipherParams::new", "derive">>
    IN  IF ~key.ok
        THEN [ok |-> FALSE, err |-> key.err, file |-> NoFile, steps |-> derived]
        ELSE IF ~ciphertext.ok
        THEN [ok |-> FALSE, err |-> ciphertext.err, file |-> NoFile,
              steps |-> Append(derived, "encrypt")]
        ELSE [ok |-> TRUE, err |-> "",
              file |-> VaultFile(1, kdf_params, cipher_params, ciphertext.ct),
              steps |-> derived \o <<"encrypt", "VaultFile">>]


\* ------------------------------------------------------------------------
\* app.rs: App and its operations.  An operation is a function from the
\* App before the call to the App after it.  App.vault_path never changes
\* and is the variable vault_path; an Option<Uuid> is 0 for None.
\* ------------------------------------------------------------------------
FormFields == <<"Name", "Username", "Password", "Url", "Notes", "Tags">>

FieldIndex(field) == CHOOSE i \in 1..Len(FormFields) : FormFields[i] = field
FieldNext(field) == FormFields[(FieldIndex(field) % Len(FormFields)) + 1]
FieldPrev(field) ==
    FormFields[((FieldIndex(field) + Len(FormFields) - 2) % Len(FormFields)) + 1]

FormData(name, username, password, url, notes, tags, editing_id) ==
    [name |-> name, username |-> username, password |-> password, url |-> url,
     notes |-> notes, tags |-> tags, editing_id |-> editing_id]

FormDataDefault == FormData(<<>>, <<>>, <<>>, <<>>, <<>>, <<>>, 0)

\* Option<String> of the status line: the text and the value formatted
\* into it.
NoStatus == [some |-> FALSE, msg |-> "", arg |-> <<>>]
Status(msg, arg) == [some |-> TRUE, msg |-> msg, arg |-> arg]

\* ListState's selection, an Option<usize>.
ListNone == [some |-> FALSE, v |-> 0]
ListSome(i) == [some |-> TRUE, v |-> i]

AppNew(password, vault, now) ==
    [vault |-> vault, password |-> password, mode |-> "Normal", selected |-> 0,
     search_query |-> <<>>, command_buffer |-> <<>>, command_completions |-> <<>>,
     completion_index |-> 0, status_message |-> NoStatus, should_quit |-> FALSE,
     dirty |-> FALSE, filtered_entries |-> Ids(vault.entries),
     form_data |-> FormDataDefault, focused_field |-> "Name",
     pending_save |-> FALSE, list_state |-> ListSome(0), show_password |-> FALSE,
     last_activity |-> now, unlock_input |-> <<>>]

SetStatus(a, msg, arg) == [a EXCEPT !.status_message = Status(msg, arg)]
ClearStatus(a) == [a EXCEPT !.status_message = NoStatus]

\* A lock without the early return of app.rs:161-163.
LockAgain(a) ==
    SetStatus([a EXCEPT !.vault.entries = <<>>,
                        !.filtered_entries = <<>>,
                        !.search_query = <<>>,
                        !.form_data = FormDataDefault,
                        !.password = <<>>,
                        !.mode = "Locked",
                        !.unlock_input = <<>>],
              "Vault Locked due to inactivity", <<>>)

\* A lock that leaves the master passphrase in the App.
LockKeepsPassword(a) ==
    IF a.mode = "Locked" THEN a
    ELSE SetStatus([a EXCEPT !.vault.entries = <<>>,
                             !.filtered_entries = <<>>,
                             !.search_query = <<>>,
                             !.form_data = FormDataDefault,
                             !.mode = "Locked",
                             !.unlock_input = <<>>],
                   "Vault Locked due to inactivity", <<>>)

\* clear_clipboard acts on the system clipboard alone, and its error is
\* dropped.
Lock(a) ==
    IF a.mode = "Locked" THEN a
    ELSE SetStatus([a EXCEPT !.vault.entries = <<>>,
                             !.filtered_entries = <<>>,
                             !.search_query = <<>>,
                             !.form_data = FormDataDefault,
                             !.password = <<>>,
                             !.mode = "Locked",
                             !.unlock_input = <<>>],
                   "Vault Locked due to inactivity", <<>>)

UpdateSearch(a) ==
    LET filtered == Ids(VaultSearch(a.vault, a.search_query))
        len == Len(filtered)
        non_empty == IF len > 0 THEN 1 ELSE 0
        selected == Min(a.selected, SaturatingSub(len, 1)) * non_empty
    IN  [a EXCEPT !.filtered_entries = filtered,
                  !.selected = selected,
                  !.list_state = IF len > 0 THEN ListSome(selected) ELSE ListNone]

\* An unlock with a lockout: once an attempt has failed, the next one is
\* refused whatever load returned.
UnlockRefusedAfterFailure(a, loaded, now) ==
    IF loaded.ok /\ a.status_message # Status("Incorrect password or vault error", <<>>)
    THEN LET a1 == UpdateSearch([a EXCEPT !.vault = loaded.vault,
                                          !.password = a.unlock_input,
                                          !.filtered_entries = Ids(loaded.vault.entries)])
         IN  SetStatus([a1 EXCEPT !.mode = "Normal",
                                  !.unlock_input = <<>>,
                                  !.last_activity = now],
                       "Vault Unlocked", <<>>)
    ELSE [SetStatus(a, "Incorrect password or vault error", <<>>)
             EXCEPT !.unlock_input = <<>>]

\* An unlock whose failure also empties the vault held in memory.
UnlockFailureWipes(a, loaded, now) ==
    IF loaded.ok
    THEN LET a1 == UpdateSearch([a EXCEPT !.vault = loaded.vault,
                                          !.password = a.unlock_input,
                                          !.filtered_entries = Ids(loaded.vault.entries)])
         IN  SetStatus([a1 EXCEPT !.mode = "Normal",
                                  !.unlock_input = <<>>,
                                  !.last_activity = now],
                       "Vault Unlocked", <<>>)
    ELSE [SetStatus(a, "Incorrect password or vault error", <<>>)
             EXCEPT !.unlock_input = <<>>, !.vault.entries = <<>>]

\* An unlock that checks the passphrase and keeps the vault in memory.
UnlockKeepsMemory(a, loaded, now) ==
    IF loaded.ok
    THEN LET a1 == UpdateSearch([a EXCEPT !.password = a.unlock_input,
                                          !.filtered_entries = Ids(a.vault.entries)])
         IN  SetStatus([a1 EXCEPT !.mode = "Normal",
                                  !.unlock_input = <<>>,
                                  !.last_activity = now],
                       "Vault Unlocked", <<>>)
    ELSE [SetStatus(a, "Incorrect password or vault error", <<>>)
             EXCEPT !.unlock_input = <<>>]

\* App::unlock, given what VaultFile::load returned for unlock_input.
Unlock(a, loaded, now) ==
    IF loaded.ok
    THEN LET a1 == UpdateSearch([a EXCEPT !.vault = loaded.vault,
                                          !.password = a.unlock_input,
                                          !.filtered_entries = Ids(loaded.vault.entries)])
         IN  SetStatus([a1 EXCEPT !.mode = "Normal",
                                  !.unlock_input = <<>>,
                                  !.last_activity = now],
                       "Vault Unlocked", <<>>)
    ELSE [SetStatus(a, "Incorrect password or vault error", <<>>)
             EXCEPT !.unlock_input = <<>>]

TouchActivity(a, now) == [a EXCEPT !.last_activity = now]

GetSelectedId(a) ==
    IF a.selected < Len(a.filtered_entries) THEN a.filtered_entries[a.selected + 1]
    ELSE 0

GetSelectedEntry(a) ==
    IF GetSelectedId(a) = 0 THEN None ELSE VaultGetEntry(a.vault, GetSelectedId(a))

MoveUp(a) ==
    LET can_move == IF a.selected > 0 THEN 1 ELSE 0
    IN  [a EXCEPT !.selected = a.selected - can_move,
                  !.list_state = ListSome(a.selected - can_move)]

MoveDown(a) ==
    LET can_move == IF a.selected + 1 < Len(a.filtered_entries) THEN 1 ELSE 0
    IN  [a EXCEPT !.selected = a.selected + can_move,
                  !.list_state = ListSome(a.selected + can_move)]

JumpToTop(a) == [a EXCEPT !.selected = 0, !.list_state = ListSome(0)]

JumpToBottom(a) ==
    IF a.filtered_entries # <<>>
    THEN [a EXCEPT !.selected = Len(a.filtered_entries) - 1,
                   !.list_state = ListSome(Len(a.filtered_entries) - 1)]
    ELSE a

AddEntry(a, entry) ==
    UpdateSearch([a EXCEPT !.vault = VaultAddEntry(@, entry), !.dirty = TRUE])

\* A deletion that leaves the filtered list as it was.
DeleteSelectedStale(a) ==
    LET id == GetSelectedId(a)
        taken == VaultRemoveEntry(a.vault, id)
    IN  IF id # 0
        THEN [app |-> [a EXCEPT !.vault = taken.vault, !.dirty = TRUE],
              entry |-> taken.removed]
        ELSE [app |-> a, entry |-> None]

\* App::delete_selected: the App after the call, and the entry returned.
DeleteSelected(a) ==
    LET id == GetSelectedId(a)
        taken == VaultRemoveEntry(a.vault, id)
    IN  IF id # 0
        THEN [app |-> UpdateSearch([a EXCEPT !.vault = taken.vault, !.dirty = TRUE]),
              entry |-> taken.removed]
        ELSE [app |-> a, entry |-> None]

\* A request that sets the flag and leaves the status alone.
RequestSaveSilent(a) == [a EXCEPT !.pending_save = TRUE]

RequestSave(a) == SetStatus([a EXCEPT !.pending_save = TRUE], "Saving...", <<>>)

\* App::save after VaultFile::save has returned Ok (app.rs:316-319); when
\* it returned an error, `?` leaves the App as it was.
Saved(a) ==
    SetStatus([a EXCEPT !.dirty = FALSE, !.pending_save = FALSE], "Vault saved", <<>>)

EnterSearchMode(a) ==
    UpdateSearch([a EXCEPT !.mode = "Search", !.search_query = <<>>])

ExitSearchMode(a) ==
    UpdateSearch([a EXCEPT !.mode = "Normal", !.search_query = <<>>])

EnterCommandMode(a) ==
    [a EXCEPT !.mode = "Command", !.command_buffer = <<>>,
              !.command_completions = <<>>, !.completion_index = 0]

ResetCompletion(a) ==
    [a EXCEPT !.command_completions = <<>>, !.completion_index = 0]

\* A command line on which q and quit quit whether or not the vault is
\* dirty.
ExecuteCommandQuitsDirty(a) ==
    LET cmd == Trim(a.command_buffer)
        a1 == CASE cmd \in {<<"q">>, <<"q", "u", "i", "t">>,
                            <<"q", "!">>, <<"q", "u", "i", "t", "!">>} ->
                       [a EXCEPT !.should_quit = TRUE]
                [] cmd \in {<<"w">>, <<"w", "r", "i", "t", "e">>} ->
                       RequestSave(a)
                [] cmd \in {<<"w", "q">>, <<"x">>} ->
                       [RequestSave(a) EXCEPT !.should_quit = TRUE]
                [] OTHER -> SetStatus(a, "Unknown command: {}", cmd)
    IN  [a1 EXCEPT !.mode = "Normal", !.command_buffer = <<>>]

\* App::execute_command.  No command that starts with "export " is among
\* the inputs, so handle_export_command is never entered.
ExecuteCommand(a) ==
    LET cmd == Trim(a.command_buffer)
        a1 == CASE cmd \in {<<"q">>, <<"q", "u", "i", "t">>} ->
                       IF a.dirty
                       THEN SetStatus(a, "Unsaved changes! Use :q! to force quit or :wq to save and quit",
                                      <<>>)
                       ELSE [a EXCEPT !.should_quit = TRUE]
                [] cmd \in {<<"q", "!">>, <<"q", "u", "i", "t", "!">>} ->
                       [a EXCEPT !.should_quit = TRUE]
                [] cmd \in {<<"w">>, <<"w", "r", "i", "t", "e">>} ->
                       RequestSave(a)
                [] cmd \in {<<"w", "q">>, <<"x">>} ->
                       [RequestSave(a) EXCEPT !.should_quit = TRUE]
                [] OTHER -> SetStatus(a, "Unknown command: {}", cmd)
    IN  [a1 EXCEPT !.mode = "Normal", !.command_buffer = <<>>]

EnterInsertMode(a) ==
    [a EXCEPT !.mode = "Insert", !.form_data = FormDataDefault,
              !.focused_field = "Name"]

UnwrapOrDefault(o) == IF o.some THEN o.v ELSE <<>>

EnterEditMode(a) ==
    LET selected == GetSelectedEntry(a)
        entry == selected.v
    IN  IF selected.some
        THEN [a EXCEPT !.mode = "Insert",
                       !.form_data =
                           FormData(entry.name, entry.username, entry.password,
                                    UnwrapOrDefault(entry.url),
                                    UnwrapOrDefault(entry.notes),
                                    Join(entry.tags, <<",", " ">>), entry.id),
                       !.focused_field = "Name"]
        ELSE SetStatus(a, "No entry selected", <<>>)

GetFieldValue(a, field) ==
    CASE field = "Name" -> a.form_data.name
      [] field = "Username" -> a.form_data.username
      [] field = "Password" -> a.form_data.password
      [] field = "Url" -> a.form_data.url
      [] field = "Notes" -> a.form_data.notes
      [] field = "Tags" -> a.form_data.tags

\* The App with the field get_field_value_mut refers to set to a value.
SetFieldValue(a, field, value) ==
    CASE field = "Name" -> [a EXCEPT !.form_data.name = value]
      [] field = "Username" -> [a EXCEPT !.form_data.username = value]
      [] field = "Password" -> [a EXCEPT !.form_data.password = value]
      [] field = "Url" -> [a EXCEPT !.form_data.url = value]
      [] field = "Notes" -> [a EXCEPT !.form_data.notes = value]
      [] field = "Tags" -> [a EXCEPT !.form_data.tags = value]

\* app.rs:604-610
ParseTags(tags) ==
    LET pieces == Split(tags, ",")
        trimmed == [i \in 1..Len(pieces) |-> Trim(pieces[i])]
    IN  SelectSeq(trimmed, LAMBDA t : t # <<>>)

NoneIfEmpty(s) == IF s = <<>> THEN None ELSE Some(s)

\* A validation that takes a name of spaces for a name.
FormValidUntrimmed(a) == a.form_data.name # <<>>

\* Whether save_form passes the validation, and whether it then creates an
\* entry (drawing a Uuid and reading the clock) or updates one (reading the
\* clock in touch).
FormValid(a) == Trim(a.form_data.name) # <<>>
FormCreates(a) == FormValid(a) /\ a.form_data.editing_id = 0
FormUpdates(a) ==
    /\ FormValid(a)
    /\ a.form_data.editing_id # 0
    /\ Position(a.vault.entries, a.form_data.editing_id) # 0

\* App::save_form, with the Uuid and the clock reading it would use.
SaveForm(a, id, now) ==
    IF ~FormValid(a) THEN SetStatus(a, "Name is required", <<>>)
    ELSE LET form == a.form_data
             tags == ParseTags(form.tags)
             pos == Position(a.vault.entries, form.editing_id)
             a1 == IF form.editing_id # 0
                   THEN IF pos # 0
                        THEN SetStatus(
                                 [a EXCEPT !.vault.entries[pos] =
                                               EntryTouch(
                                                   [@ EXCEPT !.name = form.name,
                                                             !.username = form.username,
                                                             !.password = form.password,
                                                             !.url = NoneIfEmpty(form.url),
                                                             !.notes = NoneIfEmpty(form.notes),
                                                             !.tags = tags],
                                                   now),
                                           !.dirty = TRUE],
                                 "Updated entry '{}'", form.name)
                        ELSE a
                   ELSE AddEntry(SetStatus(a, "Created entry '{}'", form.name),
                                 EntryNew(id, now, form.name, form.username,
                                          form.password, NoneIfEmpty(form.url),
                                          NoneIfEmpty(form.notes), tags))
         IN  UpdateSearch([a1 EXCEPT !.mode = "Normal", !.show_password = FALSE])

CancelForm(a) ==
    [a EXCEPT !.mode = "Normal", !.form_data = FormDataDefault,
              !.show_password = FALSE]

TogglePasswordVisibility(a) == [a EXCEPT !.show_password = ~a.show_password]

\* ------------------------------------------------------------------------
\* main.rs: the key handlers
\* ------------------------------------------------------------------------
Key(code, c, ctrl) == [code |-> code, c |-> c, ctrl |-> ctrl]
KeyChar(c) == Key("Char", c, FALSE)
KeyCtrl(c) == Key("Char", c, TRUE)
KeyEnter == Key("Enter", "", FALSE)
KeyEsc == Key("Esc", "", FALSE)
KeyTab == Key("Tab", "", FALSE)
KeyBackTab == Key("BackTab", "", FALSE)
KeyBackspace == Key("Backspace", "", FALSE)

IsChar(key, c) == key.code = "Char" /\ key.c = c

\* The keys y and Y, which reach the system clipboard, are not among the
\* inputs.
HandleNormalMode(a, key) ==
    CASE IsChar(key, "q") -> [EnterCommandMode(a) EXCEPT !.command_buffer = <<"q">>]
      [] IsChar(key, ":") -> EnterCommandMode(a)
      [] IsChar(key, "j") -> MoveDown(a)
      [] IsChar(key, "k") -> MoveUp(a)
      [] IsChar(key, "g") -> JumpToTop(a)
      [] IsChar(key, "G") -> JumpToBottom(a)
      [] IsChar(key, "/") -> EnterSearchMode(a)
      [] IsChar(key, "n") -> EnterInsertMode(a)
      [] IsChar(key, "e") -> EnterEditMode(a)
      [] IsChar(key, "d") ->
             LET deleted == DeleteSelected(a)
             IN  IF deleted.entry.some
                 THEN SetStatus(deleted.app, "Deleted entry '{}'", deleted.entry.v.name)
                 ELSE deleted.app
      [] key.code = "Enter" -> [a EXCEPT !.mode = "Detail"]
      [] key.code = "Esc" -> UpdateSearch([a EXCEPT !.search_query = <<>>])
      [] OTHER -> a

HandleSearchMode(a, key) ==
    CASE key.code = "Char" ->
             UpdateSearch([a EXCEPT !.search_query = Push(@, key.c)])
      [] key.code = "Backspace" ->
             UpdateSearch([a EXCEPT !.search_query = Pop(@)])
      [] key.code = "Enter" -> [a EXCEPT !.mode = "Normal"]
      [] key.code = "Esc" -> ExitSearchMode(a)
      [] OTHER -> a

\* The Tab key, which completes a command, is not among the inputs.
HandleCommandMode(a, key) ==
    CASE key.code = "Char" ->
             ResetCompletion([a EXCEPT !.command_buffer = Push(@, key.c)])
      [] key.code = "Backspace" ->
             ResetCompletion([a EXCEPT !.command_buffer = Pop(@)])
      [] key.code = "Enter" -> ExecuteCommand(a)
      [] key.code = "Esc" -> [a EXCEPT !.mode = "Normal", !.command_buffer = <<>>]
      [] OTHER -> a

HandleDetailMode(a, key) ==
    CASE key.code = "Esc" \/ IsChar(key, "q") -> [a EXCEPT !.mode = "Normal"]
      [] IsChar(key, "e") -> EnterEditMode(a)
      [] OTHER -> a

HandleInsertMode(a, key, id, now) ==
    CASE IsChar(key, "s") /\ key.ctrl -> SaveForm(a, id, now)
      [] key.code = "Esc" -> CancelForm(a)
      [] key.code = "Tab" -> [a EXCEPT !.focused_field = FieldNext(@)]
      [] key.code = "BackTab" -> [a EXCEPT !.focused_field = FieldPrev(@)]
      [] key.code = "Char" ->
             SetFieldValue(a, a.focused_field,
                           Push(GetFieldValue(a, a.focused_field), key.c))
      [] key.code = "Backspace" ->
             SetFieldValue(a, a.focused_field,
                           Pop(GetFieldValue(a, a.focused_field)))
      [] OTHER -> a

\* The modes handle_key_event's match has an arm for: Locked has none.
HandledModes == {"Normal", "Search", "Command", "Detail", "Insert"}

HandleKeyEvent(a, key, id, now) ==
    LET cleared == ClearStatus(a)
    IN  CASE cleared.mode = "Normal" -> HandleNormalMode(cleared, key)
          [] cleared.mode = "Search" -> HandleSearchMode(cleared, key)
          [] cleared.mode = "Command" -> HandleCommandMode(cleared, key)
          [] cleared.mode = "Detail" -> HandleDetailMode(cleared, key)
          [] cleared.mode = "Insert" -> HandleInsertMode(cleared, key, id, now)


\* ------------------------------------------------------------------------
\* State
\* ------------------------------------------------------------------------
VARIABLES
    vault_path, \* the path the vault is kept at
    names,      \* the directory: path -> inode, 0 when no such file
    inodes,     \* inode -> what it holds
    dirExists,  \* the vault's parent directory exists
    fd,         \* writer -> the inode its fs::write holds open, 0 when none
    pc,         \* writer -> where its save stands
    sv,         \* writer -> the arguments and locals of its save
    outcome,    \* writer -> how its last save ended
    rng,        \* the number of outputs drawn from OsRng so far
    written,    \* the containers saves wrote to disk, in order
    lastLoad,   \* the last load: its arguments and what it returned
    app,        \* the App of the interactive session
    running,    \* run_app's loop has not returned
    uuids,      \* the number of Uuid::new_v4 results so far
    clock,      \* the number of Utc::now readings so far
    instant,    \* Instant::now(), in poll periods of run_app
    libCall     \* the last direct call of a function of crypto.rs or model.rs

session == <<app, running, uuids, clock, instant>>

\* The files and the saves of the writers.
store == <<vault_path, names, inodes, dirExists, fd, pc, sv, outcome, rng, written>>

vars == <<vault_path, names, inodes, dirExists, fd, pc, sv, outcome, rng, written,
          lastLoad, app, running, uuids, clock, instant, libCall>>

NoCall == [vault |-> NoVault, pw |-> <<>>, file |-> NoFile, prev |-> Free,
           steps |-> <<>>]
NoLoad == [called |-> FALSE, pw |-> <<>>, res |-> LoadResult(FALSE, "", NoVault, <<>>)]
NoLibCall == [fn |-> "none"]

\* The passphrases a load is tried with: those saved under and two others.
LoadPassphrases == Passphrases \cup {<<>>, <<"b">>}

\* The version fields an edited container may carry.
FileVersions == {0, 1, 2}

\* No interactive session runs.
NoSession ==
    /\ app = AppNew(<<>>, VaultNew, 0)
    /\ running = FALSE
    /\ uuids = 0
    /\ clock = 0
    /\ instant = 0

InitAt(paths) ==
    /\ vault_path \in paths
    /\ names = [p \in Paths |-> 0]
    /\ inodes = [i \in InodeIds |-> Free]
    /\ dirExists = FALSE
    /\ fd = [w \in Writers |-> 0]
    /\ pc = [w \in Writers |-> "idle"]
    /\ sv = [w \in Writers |-> NoCall]
    /\ outcome = [w \in Writers |-> [res |-> "none", at |-> "idle"]]
    /\ rng = 0
    /\ written = <<>>
    /\ lastLoad = NoLoad
    /\ libCall = NoLibCall
    /\ NoSession

Init == InitAt(TargetPaths)

TempPath == WithExtension(vault_path, "tmp")

\* How a save leaves: Ok(()) ("ok"), an error ("err") or the process dying
\* ("crashed"), each with the step it had reached.
Leave(w, res) ==
    /\ pc' = [pc EXCEPT ![w] = "idle"]
    /\ outcome' = [outcome EXCEPT ![w] = [res |-> res, at |-> pc[w]]]

\* storage.rs:59-77
SaveBegin(w, vault, password) ==
    /\ pc[w] = "idle"
    /\ rng + 2 <= 2 * MaxSaves
    /\ LET built == SaveBuild(vault, password, rng)
       IN  /\ sv' = [sv EXCEPT ![w] = [vault |-> vault, pw |-> password,
                                       file |-> built.file,
                                       prev |-> ReadPath(names, inodes, vault_path),
                                       steps |-> built.steps]]
           /\ IF built.ok
              THEN /\ pc' = [pc EXCEPT ![w] = "built"]
                   /\ outcome' = [outcome EXCEPT ![w] = [res |-> "none", at |-> "idle"]]
              ELSE /\ pc' = pc
                   /\ outcome' = [outcome EXCEPT ![w] = [res |-> "err", at |-> "idle"]]
    /\ rng' = rng + 2
    /\ lastLoad' = NoLoad
    /\ UNCHANGED <<vault_path, names, inodes, dirExists, fd, written>>
    /\ UNCHANGED session
    /\ UNCHANGED libCall

\* A save that goes on to the temp file without creating the directory.
SaveSkipsEnsureDir(w) ==
    /\ pc[w] = "built"
    /\ pc' = [pc EXCEPT ![w] = "dir"]
    /\ UNCHANGED <<vault_path, names, inodes, dirExists, fd, sv, outcome, rng, written,
                   lastLoad>>
    /\ UNCHANGED session
    /\ UNCHANGED libCall

\* storage.rs:80, storage.rs:28-33
SaveEnsureDir(w) ==
    /\ pc[w] = "built"
    /\ dirExists' = TRUE
    /\ pc' = [pc EXCEPT ![w] = "dir"]
    /\ sv' = [sv EXCEPT ![w].steps = Append(@, "ensure_dir")]
    /\ UNCHANGED <<vault_path, names, inodes, fd, outcome, rng, written, lastLoad>>
    /\ UNCHANGED session
    /\ UNCHANGED libCall

\* storage.rs:83-85, fs::write's File::create: the temp file is created,
\* or truncated when a file of that name exists.
SaveOpenTemp(w) ==
    /\ pc[w] = "dir"
    /\ LET i == IF names[TempPath] = 0 THEN FreeInode(names, fd) ELSE names[TempPath]
       IN  /\ names' = [names EXCEPT ![TempPath] = i]
           /\ inodes' = [inodes EXCEPT ![i] = Empty]
           /\ fd' = [fd EXCEPT ![w] = i]
    /\ pc' = [pc EXCEPT ![w] = "open"]
    /\ sv' = [sv EXCEPT ![w].steps = @ \o <<"to_vec_pretty", "File::create">>]
    /\ UNCHANGED <<vault_path, dirExists, outcome, rng, written, lastLoad>>
    /\ UNCHANGED session
    /\ UNCHANGED libCall

\* storage.rs:85, fs::write's write_all and close
SaveWriteTemp(w) ==
    /\ pc[w] = "open"
    /\ fd' = [fd EXCEPT ![w] = 0]
    /\ inodes' = Gc(names, [inodes EXCEPT ![fd[w]] = WriteAll(@, sv[w].file)], fd')
    /\ written' = Append(written, sv[w].file)
    /\ pc' = [pc EXCEPT ![w] = "written"]
    /\ sv' = [sv EXCEPT ![w].steps = Append(@, "write_all")]
    /\ UNCHANGED <<vault_path, names, dirExists, outcome, rng, lastLoad>>
    /\ UNCHANGED session
    /\ UNCHANGED libCall

\* A rename with its two paths exchanged.
RenameSwapped(nm, from, to) ==
    IF from = to THEN nm ELSE [nm EXCEPT ![from] = nm[to], ![to] = 0]

\* A rename that leaves a target that exists in place.
RenameKeepsTarget(nm, from, to) ==
    IF from = to \/ nm[to] # 0 THEN nm ELSE [nm EXCEPT ![to] = nm[from], ![from] = 0]

\* rename(2): the target's name now refers to the temp file's inode, and
\* the temp name is gone; renaming a file onto itself changes nothing.
Rename(nm, from, to) ==
    IF from = to THEN nm ELSE [nm EXCEPT ![to] = nm[from], ![from] = 0]

\* storage.rs:86: fails when the temp file is no longer there.
SaveRename(w) ==
    /\ pc[w] = "written"
    /\ IF names[TempPath] = 0
       THEN /\ Leave(w, "err")
            /\ UNCHANGED <<names, inodes>>
       ELSE /\ names' = Rename(names, TempPath, vault_path)
            /\ inodes' = Gc(names', inodes, fd)
            /\ pc' = [pc EXCEPT ![w] = "renamed"]
            /\ UNCHANGED outcome
    /\ sv' = [sv EXCEPT ![w].steps = Append(@, "rename")]
    /\ UNCHANGED <<vault_path, dirExists, fd, rng, written, lastLoad>>
    /\ UNCHANGED session
    /\ UNCHANGED libCall

\* storage.rs:88
SaveReturn(w) ==
    /\ pc[w] = "renamed"
    /\ Leave(w, "ok")
    /\ UNCHANGED <<vault_path, names, inodes, dirExists, fd, sv, rng, written, lastLoad>>
    /\ UNCHANGED session
    /\ UNCHANGED libCall

\* What a write that stops part-way leaves in the open temp file: nothing
\* of it, or a proper prefix.
Interrupted(w) ==
    IF pc[w] = "open"
    THEN {inodes[fd[w]]} \cup PartialWrites(inodes[fd[w]], sv[w].file)
    ELSE {Free}

\* The descriptor a save holds is closed when the save ends.
Stop(w, res) ==
    /\ pc[w] \in {"built", "dir", "open", "written", "renamed"}
    /\ \E left \in Interrupted(w) :
        /\ fd' = [fd EXCEPT ![w] = 0]
        /\ inodes' = IF pc[w] = "open"
                     THEN Gc(names, [inodes EXCEPT ![fd[w]] = left], fd')
                     ELSE inodes
    /\ Leave(w, res)
    /\ UNCHANGED <<vault_path, names, dirExists, sv, rng, written, lastLoad>>
    /\ UNCHANGED session
    /\ UNCHANGED libCall

\* An I/O error (storage.rs:80, 85, 86, each `?`): create_dir_all, the open
\* or the write of the temp file, or the rename fails.  create_dir_all
\* returns Ok for a directory that is there.
SaveFail(w) ==
    /\ pc[w] # "renamed"
    /\ pc[w] = "built" => ~dirExists
    /\ Stop(w, "err")

\* The saving process is interrupted.
Crash(w) == Stop(w, "crashed")

Idle == \A w \in Writers : pc[w] = "idle"

\* A load that removes a container it could not open.
DoLoadRemovesUnreadable(password) ==
    /\ Idle
    /\ lastLoad' = [called |-> TRUE, pw |-> password,
                    res |-> LoadAt(names, inodes, vault_path, password)]
    /\ names' = IF lastLoad'.res.ok THEN names ELSE [names EXCEPT ![vault_path] = 0]
    /\ inodes' = Gc(names', inodes, fd)
    /\ UNCHANGED <<vault_path, dirExists, fd, pc, sv, outcome, rng, written>>
    /\ UNCHANGED session
    /\ UNCHANGED libCall

\* storage.rs:36-56, called between saves.
DoLoad(password) ==
    /\ Idle
    /\ lastLoad' = [called |-> TRUE, pw |-> password,
                    res |-> LoadAt(names, inodes, vault_path, password)]
    /\ UNCHANGED <<vault_path, names, inodes, dirExists, fd, pc, sv, outcome, rng,
                   written>>
    /\ UNCHANGED session
    /\ UNCHANGED libCall

\* The stored file is edited behind the program's back, between saves: one
\* bit of the ciphertext field is flipped ...
FlipBit(flips, b) == IF b \in flips THEN flips \ {b} ELSE flips \cup {b}

Stored == ReadPath(names, inodes, vault_path)

TamperFlip ==
    /\ Idle
    /\ Stored.kind = "full"
    /\ \E b \in CtBits(Stored.file.ciphertext) :
        LET flipped == FlipBit(Stored.file.ciphertext.flips, b)
        IN  /\ Cardinality(flipped) <= MaxFlips
            /\ inodes' = [inodes EXCEPT ![names[vault_path]] =
                             Full([Stored.file EXCEPT !.ciphertext.flips = flipped])]
    /\ lastLoad' = NoLoad
    /\ UNCHANGED <<vault_path, names, dirExists, fd, pc, sv, outcome, rng, written>>
    /\ UNCHANGED session
    /\ UNCHANGED libCall

\* ... or the version field is rewritten.
TamperVersion ==
    /\ Idle
    /\ Stored.kind = "full"
    /\ \E v \in FileVersions \ {Stored.file.version} :
        inodes' = [inodes EXCEPT ![names[vault_path]] =
                      Full([Stored.file EXCEPT !.version = v])]
    /\ lastLoad' = NoLoad
    /\ UNCHANGED <<vault_path, names, dirExists, fd, pc, sv, outcome, rng, written>>
    /\ UNCHANGED session
    /\ UNCHANGED libCall

SaveSteps(w) ==
    \/ \E vault \in VaultPool, password \in Passphrases : SaveBegin(w, vault, password)
    \/ SaveEnsureDir(w)
    \/ SaveOpenTemp(w)
    \/ SaveWriteTemp(w)
    \/ SaveRename(w)
    \/ SaveReturn(w)

\* One process saving and loading, with crashes and I/O errors.
Next ==
    \/ SaveSteps(1)
    \/ SaveFail(1)
    \/ Crash(1)
    \/ \E password \in LoadPassphrases : DoLoad(password)

Spec == Init /\ [][Next]_vars

\* The state a first save leaves behind: its container at the vault path.
StoredAfterSave(vault, password) ==
    LET built == SaveBuild(vault, password, 0)
    IN  /\ vault_path = VaultEnc
        /\ names = [p \in Paths |-> IF p = VaultEnc THEN 1 ELSE 0]
        /\ inodes = [i \in InodeIds |-> IF i = 1 THEN Full(built.file) ELSE Free]
        /\ dirExists = TRUE
        /\ fd = [w \in Writers |-> 0]
        /\ pc = [w \in Writers |-> "idle"]
        /\ sv = [w \in Writers |->
                    IF w = 1 THEN [vault |-> vault, pw |-> password,
                                   file |-> built.file, prev |-> Free,
                                   steps |-> built.steps
                                       \o <<"ensure_dir", "to_vec_pretty",
                                            "File::create", "write_all", "rename">>]
                    ELSE NoCall]
        /\ outcome = [w \in Writers |->
                         IF w = 1 THEN [res |-> "ok", at |-> "renamed"]
                         ELSE [res |-> "none", at |-> "idle"]]
        /\ rng = 2
        /\ written = <<built.file>>
        /\ lastLoad = NoLoad
        /\ libCall = NoLibCall

InitStored ==
    /\ \E vault \in VaultPool, password \in Passphrases :
           StoredAfterSave(vault, password)
    /\ NoSession

\* A stored container that is edited and loaded, between saves.
NextTamper ==
    \/ \E password \in LoadPassphrases : DoLoad(password)
    \/ TamperFlip
    \/ TamperVersion

SpecTamper == InitStored /\ [][NextTamper]_vars

\* The costs an edited container may carry.
MemoryCosts == {65536, 16, 8}
TimeCosts == {3, 0}
Parallelisms == {4, 1, 0}

\* The KDF costs of the stored file are rewritten, between saves.
TamperKdf ==
    /\ Idle
    /\ Stored.kind = "full"
    /\ \E m \in MemoryCosts, t \in TimeCosts, p \in Parallelisms :
        LET kdf == [Stored.file.kdf EXCEPT !.memory_cost = m, !.time_cost = t,
                                           !.parallelism = p]
        IN  /\ kdf # Stored.file.kdf
            /\ inodes' = [inodes EXCEPT ![names[vault_path]] =
                              Full([Stored.file EXCEPT !.kdf = kdf])]
    /\ lastLoad' = NoLoad
    /\ UNCHANGED <<vault_path, names, dirExists, fd, pc, sv, outcome, rng, written>>
    /\ UNCHANGED session
    /\ UNCHANGED libCall

\* A stored container whose KDF costs are edited, and loaded.
NextParams ==
    \/ \E password \in LoadPassphrases : DoLoad(password)
    \/ TamperKdf

SpecParams == InitStored /\ [][NextParams]_vars

\* Two processes saving to the same path, without any lock.
NextRace == \E w \in Writers : SaveSteps(w)

SpecRace == InitAt(RacePaths) /\ [][NextRace]_vars

\* ------------------------------------------------------------------------
\* The interactive session: an App over a stored vault.  run_app's loop
\* drives it by key events, and the library exports App (lib.rs), whose
\* public operations and fields any caller may use.
\* ------------------------------------------------------------------------
AppVaults == {Vault(1, <<GitLab>>)}
AppPassphrases == {<<"a">>}

\* run_tui (main.rs:153-193): the vault is there and loads with the
\* passphrase given, and the App is built from what load returned.
InitApp ==
    /\ \E vault \in AppVaults, password \in AppPassphrases :
           /\ StoredAfterSave(vault, password)
           /\ app = AppNew(password,
                           Load(Full(SaveBuild(vault, password, 0).file), password).vault,
                           0)
    /\ running = TRUE
    /\ uuids = 2
    /\ clock = 2
    /\ instant = 0

\* The keys pressed in each mode; Tab and BackTab, which move the focus
\* of the form, are not among them.
SearchChars == {"L"}
CommandChars == {"q", "w", "!"}
FormChars == {"a", " "}
UnlockChars == {"a", "b"}

KeysFor(mode) ==
    CASE mode = "Normal" ->
             {KeyChar(c) : c \in {"q", ":", "j", "k", "g", "G", "/", "n", "e", "d", "a"}}
                 \cup {KeyEnter, KeyEsc}
      [] mode = "Search" ->
             {KeyChar(c) : c \in SearchChars} \cup {KeyBackspace, KeyEnter, KeyEsc, KeyTab}
      [] mode = "Command" ->
             {KeyChar(c) : c \in CommandChars} \cup {KeyBackspace, KeyEnter, KeyEsc}
      [] mode = "Detail" -> {KeyChar(c) : c \in {"q", "e", "a"}} \cup {KeyEsc}
      [] mode = "Insert" ->
             {KeyChar(c) : c \in FormChars}
                 \cup {KeyCtrl("s"), KeyEsc, KeyBackspace, KeyEnter}
      [] OTHER -> {}

FormLen(form) ==
    Len(form.name) + Len(form.username) + Len(form.password) + Len(form.url)
        + Len(form.notes) + Len(form.tags)

\* The strings typed stay within the bounds.
TypingAllowed(a, key) ==
    /\ (key.code = "Char" /\ ~key.ctrl)
        => /\ a.mode = "Search" => Len(a.search_query) < MaxQuery
           /\ a.mode = "Command" => Len(a.command_buffer) < MaxInput
           /\ a.mode = "Insert" => FormLen(a.form_data) < MaxForm
    /\ (key.code = "Backspace" /\ a.mode = "Insert") => FormLen(a.form_data) <= MaxForm

\* The App goes to `after`; `saving` tells whether save_form ran, which
\* draws a Uuid and reads the clock as Entry::new and Entry::touch do.
Becomes(after, saving) ==
    LET creates == saving /\ FormCreates(app)
        updates == saving /\ FormUpdates(app)
    IN  /\ creates => uuids < MaxUuids
        /\ (creates \/ updates) => clock < MaxClock
        /\ app' = after
        /\ uuids' = IF creates THEN uuids + 1 ELSE uuids
        /\ clock' = IF creates \/ updates THEN clock + 1 ELSE clock

\* run_app (main.rs:216-233) reads a key only when no save is pending and
\* the App is not to quit.
Polling == running /\ ~app.pending_save /\ ~app.should_quit

\* main.rs:229-232, main.rs:243-255
KeyEvent(key) ==
    /\ Polling
    /\ app.mode \in HandledModes
    /\ key \in KeysFor(app.mode)
    /\ TypingAllowed(app, key)
    /\ Becomes(HandleKeyEvent(app, key, uuids + 1, clock + 1),
               app.mode = "Insert" /\ IsChar(key, "s") /\ key.ctrl)
    /\ lastLoad' = NoLoad
    /\ UNCHANGED <<store, libCall, running, instant>>

\* The operations of App that take no argument, by name.
Operations ==
    {"lock", "move_up", "move_down", "jump_to_top", "jump_to_bottom",
     "delete_selected", "request_save", "clear_status", "update_search",
     "enter_search_mode", "exit_search_mode", "enter_command_mode",
     "reset_completion", "execute_command", "enter_insert_mode",
     "enter_edit_mode", "save_form", "cancel_form"}

Apply(a, op, id, now) ==
    CASE op = "lock" -> Lock(a)
      [] op = "move_up" -> MoveUp(a)
      [] op = "move_down" -> MoveDown(a)
      [] op = "jump_to_top" -> JumpToTop(a)
      [] op = "jump_to_bottom" -> JumpToBottom(a)
      [] op = "delete_selected" -> DeleteSelected(a).app
      [] op = "request_save" -> RequestSave(a)
      [] op = "clear_status" -> ClearStatus(a)
      [] op = "update_search" -> UpdateSearch(a)
      [] op = "enter_search_mode" -> EnterSearchMode(a)
      [] op = "exit_search_mode" -> ExitSearchMode(a)
      [] op = "enter_command_mode" -> EnterCommandMode(a)
      [] op = "reset_completion" -> ResetCompletion(a)
      [] op = "execute_command" -> ExecuteCommand(a)
      [] op = "enter_insert_mode" -> EnterInsertMode(a)
      [] op = "enter_edit_mode" -> EnterEditMode(a)
      [] op = "save_form" -> SaveForm(a, id, now)
      [] op = "cancel_form" -> CancelForm(a)

\* app.rs:160-189: lock, called in whatever mode the App is in.
CallLock ==
    /\ running
    /\ app' = Lock(app)
    /\ lastLoad' = NoLoad
    /\ UNCHANGED <<store, libCall, running, uuids, clock, instant>>

\* A public operation of App called while the mode is Locked, the mode
\* handle_key_event has no arm for.
Call(op) ==
    /\ Polling
    /\ app.mode = "Locked"
    /\ Becomes(Apply(app, op, uuids + 1, clock + 1), op = "save_form")
    /\ lastLoad' = NoLoad
    /\ UNCHANGED <<store, libCall, running, instant>>

\* The passphrase is entered into the public field unlock_input, which
\* the locked screen shows (ui.rs:153), a character at a time.
TypeUnlockInput(c) ==
    /\ Polling
    /\ app.mode = "Locked"
    /\ Len(app.unlock_input) < MaxUnlock
    /\ app' = [app EXCEPT !.unlock_input = Push(@, c)]
    /\ lastLoad' = NoLoad
    /\ UNCHANGED <<store, libCall, running, uuids, clock, instant>>

\* app.rs:192-215: unlock, called in whatever mode the App is in
CallUnlock ==
    /\ Polling
    /\ LET loaded == LoadAt(names, inodes, vault_path, app.unlock_input)
       IN  /\ app' = Unlock(app, loaded, instant)
           /\ lastLoad' = [called |-> TRUE, pw |-> app.unlock_input, res |-> loaded]
    /\ UNCHANGED <<store, libCall, running, uuids, clock, instant>>

\* VaultFile::save as one step of a single process (storage.rs:59-89):
\* what the directory and the inodes are once it has returned Ok.
SaveWhole(nm, ino, path, file) ==
    LET temp_path == WithExtension(path, "tmp")
        closed == [w \in Writers |-> 0]
        i == IF nm[temp_path] = 0 THEN FreeInode(nm, closed) ELSE nm[temp_path]
        created == [nm EXCEPT ![temp_path] = i]
        renamed == Rename(created, temp_path, path)
    IN  [names |-> renamed,
         inodes |-> Gc(renamed, [ino EXCEPT ![i] = WriteAll(Empty, file)], closed)]

\* main.rs:217-223 with app.rs:314-320: the frame is drawn from the App
\* as it stands, then the requested save runs, and VaultFile::save returns
\* Ok ...
RunSave ==
    /\ running
    /\ app.pending_save
    /\ rng + 2 <= 2 * MaxSaves
    /\ LET built == SaveBuild(app.vault, app.password, rng)
           after == SaveWhole(names, inodes, vault_path, built.file)
       IN  /\ built.ok
           /\ names' = after.names
           /\ inodes' = after.inodes
           /\ written' = Append(written, built.file)
    /\ rng' = rng + 2
    /\ app' = Saved(app)
    /\ lastLoad' = NoLoad
    /\ UNCHANGED <<vault_path, dirExists, fd, pc, sv, outcome, running, uuids, clock,
                   instant, libCall>>

\* ... or an error, from create_dir_all before anything is written: `?`
\* returns it from App::save and from run_app.
RunSaveFails ==
    /\ running
    /\ app.pending_save
    /\ rng + 2 <= 2 * MaxSaves
    /\ rng' = rng + 2
    /\ running' = FALSE
    /\ lastLoad' = NoLoad
    /\ UNCHANGED <<vault_path, names, inodes, dirExists, fd, pc, sv, outcome, written,
                   app, uuids, clock, instant, libCall>>

\* A loop that looks at should_quit before it runs the pending save.
QuitBeforeSave ==
    /\ running
    /\ app.should_quit
    /\ running' = FALSE
    /\ lastLoad' = NoLoad
    /\ UNCHANGED <<store, libCall, app, uuids, clock, instant>>

\* main.rs:225-227
Quit ==
    /\ running
    /\ ~app.pending_save
    /\ app.should_quit
    /\ running' = FALSE
    /\ lastLoad' = NoLoad
    /\ UNCHANGED <<store, libCall, app, uuids, clock, instant>>

NextApp ==
    \/ \E mode \in HandledModes : \E key \in KeysFor(mode) : KeyEvent(key)
    \/ CallLock
    \/ \E op \in Operations : Call(op)
    \/ \E c \in UnlockChars : TypeUnlockInput(c)
    \/ CallUnlock
    \/ RunSave
    \/ RunSaveFails
    \/ Quit

SpecApp == InitApp /\ [][NextApp]_vars

\* main.rs:229: event::poll returns false after its 16 ms, no key having
\* been pressed, and the loop goes round.  The time is followed up to
\* MaxIdle periods; beyond that the loop still goes round, the state of
\* the App being what it was.
PollTimeout ==
    /\ Polling
    /\ instant' = Min(instant + 1, MaxIdle)
    /\ lastLoad' = NoLoad
    /\ UNCHANGED <<store, libCall, app, running, uuids, clock>>

\* The App as the library exports it (lib.rs:3): its public operations
\* called in any order and in any mode, the passphrase entered at the
\* locked screen, and the saves requested.
CallOp(op) ==
    /\ Polling
    /\ Becomes(Apply(app, op, uuids + 1, clock + 1), op = "save_form")
    /\ lastLoad' = NoLoad
    /\ UNCHANGED <<store, libCall, running, instant>>

NextApi ==
    \/ \E op \in Operations : CallOp(op)
    \/ \E c \in UnlockChars : TypeUnlockInput(c)
    \/ CallUnlock
    \/ RunSave
    \/ RunSaveFails

SpecApi == InitApp /\ [][NextApi]_vars

\* run_app alone (main.rs:215-240): the keys it handles, the save it runs,
\* and the polls that time out, which go on as long as the loop does.
NextLoop ==
    \/ \E mode \in HandledModes : \E key \in KeysFor(mode) : KeyEvent(key)
    \/ RunSave
    \/ RunSaveFails
    \/ Quit
    \/ PollTimeout

SpecLoop == InitApp /\ [][NextLoop]_vars /\ WF_vars(PollTimeout)

\* The command lines execute_command knows (app.rs:420-440), and one it
\* does not.
CommandLines ==
    {<<"q">>, <<"q", "u", "i", "t">>, <<"q", "!">>, <<"q", "u", "i", "t", "!">>,
     <<"w">>, <<"w", "r", "i", "t", "e">>, <<"w", "q">>, <<"x">>, <<"w", "x">>}

CommandLineChars == {"q", "u", "i", "t", "!", "w", "r", "e", "x"}

\* main.rs:322-325: a character typed in Command mode that carries on one
\* of the command lines, whatever its length.
TypeCommand(c) ==
    /\ Polling
    /\ app.mode = "Command"
    /\ \E line \in CommandLines : IsPrefix(Push(app.command_buffer, c), line)
    /\ Becomes(HandleKeyEvent(app, KeyChar(c), uuids + 1, clock + 1), FALSE)
    /\ lastLoad' = NoLoad
    /\ UNCHANGED <<store, libCall, running, instant>>

\* The keys that move between the Normal, Command and Detail modes, type
\* and run command lines, and delete entries.
CommandKeys ==
    {KeyChar(c) : c \in {"q", ":", "j", "k", "d", "w", "!"}}
        \cup {KeyEnter, KeyEsc, KeyBackspace}

\* run_app with every command line typed in full, the vault changed by
\* deleting entries.
NextCommands ==
    \/ \E key \in CommandKeys : KeyEvent(key)
    \/ \E c \in CommandLineChars : TypeCommand(c)
    \/ RunSave
    \/ RunSaveFails
    \/ Quit
    \/ PollTimeout

SpecCommands == InitApp /\ [][NextCommands]_vars

\* The keys that move the selection, filter the list, open and fill the
\* form and delete entries; none of them enters Command mode.
EditKeys ==
    {KeyChar(c) : c \in {"j", "k", "g", "G", "/", "n", "e", "d"} \cup SearchChars
                            \cup FormChars}
        \cup {KeyCtrl("s"), KeyEnter, KeyEsc, KeyBackspace}

\* The list and the form driven by keys, with the App locked and unlocked
\* in between.
NextEdit ==
    \/ \E key \in EditKeys : KeyEvent(key)
    \/ CallLock
    \/ \E c \in UnlockChars : TypeUnlockInput(c)
    \/ CallUnlock

SpecEdit == InitApp /\ [][NextEdit]_vars

\* ------------------------------------------------------------------------
\* The functions of crypto.rs and model.rs called directly, as the tests
\* of those files and any user of the library call them.
\* ------------------------------------------------------------------------
\* The keys derive returns for the passphrases, under two drawn salts.
CipherKeys ==
    {Derive(password, KdfParamsNew(draw)).key :
         password \in LoadPassphrases, draw \in 1..2}

\* CipherParams has public fields (crypto.rs:98-101): a caller or a stored
\* file may give a nonce of any length.
NonceLens == {0, NONCE_SIZE - 1, NONCE_SIZE, NONCE_SIZE + 1}

CipherParamsPool ==
    {[algorithm |-> "chacha20poly1305", nonce |-> Bytes(len, draw)] :
         len \in NonceLens, draw \in 1..2}

\* The plaintexts: no bytes at all, and the serialized vaults.
Plaintexts == {<<>>} \cup {ToVec(vault) : vault \in VaultPool}

\* crypto.rs:165-179
CallEncrypt(key, plaintext, cipher_params) ==
    /\ libCall' = [fn |-> "encrypt", key |-> key, cipher_params |-> cipher_params,
                   plaintext |-> plaintext, ciphertext |-> NoCiphertext,
                   enc |-> Encrypt(key, plaintext, cipher_params),
                   dec |-> [ok |-> FALSE, err |-> "", pt |-> <<>>]]
    /\ UNCHANGED <<store, lastLoad>>
    /\ UNCHANGED session

\* crypto.rs:182-196: what the last encrypt returned is decrypted, under
\* any key and any parameters.
CallDecrypt(key, cipher_params) ==
    /\ libCall.fn = "encrypt"
    /\ libCall.enc.ok
    /\ libCall' = [fn |-> "decrypt", key |-> key, cipher_params |-> cipher_params,
                   plaintext |-> libCall.plaintext, ciphertext |-> libCall.enc.ct,
                   enc |-> libCall.enc,
                   dec |-> Decrypt(key, libCall.enc.ct, cipher_params)]
    /\ UNCHANGED <<store, lastLoad>>
    /\ UNCHANGED session

NextCipher ==
    \/ \E key \in CipherKeys, plaintext \in Plaintexts,
          cipher_params \in CipherParamsPool :
           CallEncrypt(key, plaintext, cipher_params)
    \/ \E key \in CipherKeys, cipher_params \in CipherParamsPool :
           CallDecrypt(key, cipher_params)

SpecCipher == Init /\ [][NextCipher]_vars

\* An entry whose name ends in a capital sigma and whose password alone
\* holds a "g".
Odos == Entry(3, 2, 2, <<"O", SIGMA>>, <<"v">>, <<"g">>, None, None, <<>>)

ModelEntries == {GitHub, GitLab, Odos}

\* The vaults searched and changed: those saved, one of three entries,
\* and each of them with one more entry added.
SearchVaults == VaultPool \cup {Vault(1, <<GitHub, Odos, GitLab>>)}

ModelVaults ==
    SearchVaults \cup {VaultAddEntry(vault, entry) :
                          vault \in SearchVaults, entry \in ModelEntries}

\* The queries: every string of at most two of these characters.
QueryChars == {"g", "L", "x", "w", SIGMA}

Queries ==
    {<<>>} \cup {<<c>> : c \in QueryChars}
           \cup {<<c, d>> : c \in QueryChars, d \in QueryChars}

\* Uuids, one of which no entry has.
ModelIds == 1..4

\* model.rs:112-119
CallSearch(vault, query) ==
    /\ libCall' = [fn |-> "search", vault |-> vault, query |-> query,
                   res |-> VaultSearch(vault, query)]
    /\ UNCHANGED <<store, lastLoad>>
    /\ UNCHANGED session

\* model.rs:88-91
CallAddEntry(vault, entry) ==
    /\ libCall' = [fn |-> "add_entry", vault |-> vault, entry |-> entry,
                   after |-> VaultAddEntry(vault, entry)]
    /\ UNCHANGED <<store, lastLoad>>
    /\ UNCHANGED session

\* model.rs:93-100
CallRemoveEntry(vault, id) ==
    /\ LET r == VaultRemoveEntry(vault, id)
       IN  libCall' = [fn |-> "remove_entry", vault |-> vault, id |-> id,
                       after |-> r.vault, removed |-> r.removed]
    /\ UNCHANGED <<store, lastLoad>>
    /\ UNCHANGED session

NextModel ==
    \/ \E vault \in SearchVaults, query \in Queries : CallSearch(vault, query)
    \/ \E vault \in SearchVaults, entry \in ModelEntries : CallAddEntry(vault, entry)
    \/ \E vault \in ModelVaults, id \in ModelIds : CallRemoveEntry(vault, id)

SpecModel == Init /\ [][NextModel]_vars

\* ------------------------------------------------------------------------
\* Claims
\* ------------------------------------------------------------------------
SaveOk == outcome[1].res = "ok"

\* C1: after save(path, V, P) has succeeded, load(path, P) succeeds and
\* returns a vault equal to V in every field: version, entries and their
\* order, and each entry's id, timestamps, name, username, password, url,
\* notes and tags.
C1_RoundTrip ==
    (SaveOk /\ lastLoad.called /\ lastLoad.pw = sv[1].pw)
        => (lastLoad.res.ok /\ lastLoad.res.vault = sv[1].vault)

C1_Witness ==
    /\ SaveOk /\ lastLoad.called /\ lastLoad.pw = sv[1].pw
    /\ lastLoad.res.ok
    /\ Len(lastLoad.res.vault.entries) = 2
    /\ sv[1].prev.kind = "full"

\* C2: after save(path, V, P1) has succeeded, load(path, P2) with any
\* P2 # P1 fails with the authentication error and returns no vault.
C2_WrongPassphrase ==
    (SaveOk /\ lastLoad.called /\ lastLoad.pw # sv[1].pw)
        => (~lastLoad.res.ok /\ lastLoad.res.err = "Authentication"
            /\ lastLoad.res.vault = NoVault)

C2_Witness ==
    /\ SaveOk /\ lastLoad.called /\ lastLoad.pw # sv[1].pw
    /\ lastLoad.pw \in Passphrases
    /\ lastLoad.res.err = "Authentication"

\* C3: with exactly one bit of the ciphertext of a saved container flipped,
\* payload bit or tag bit, load with the passphrase of the save fails with
\* the authentication error and returns no vault.
OneBitFlipped ==
    /\ Stored.kind = "full"
    /\ Stored.file.version = 1
    /\ Cardinality(Stored.file.ciphertext.flips) = 1

C3_TamperDetected ==
    (OneBitFlipped /\ lastLoad.called /\ lastLoad.pw = sv[1].pw)
        => (~lastLoad.res.ok /\ lastLoad.res.err = "Authentication"
            /\ lastLoad.res.vault = NoVault)

C3_Witness ==
    /\ OneBitFlipped /\ lastLoad.called /\ lastLoad.pw = sv[1].pw
    /\ lastLoad.res.err = "Authentication"
    /\ Stored.file.ciphertext.flips \cap PayloadBits(Stored.file.ciphertext) = {}

\* C4 (as claimed): with two processes saving to the same path, the path
\* holds at every moment either no file or one complete container that one
\* of the saves wrote.
C4_NeverTorn ==
    \/ Stored.kind = "free"
    \/ /\ Stored.kind = "full"
       /\ \E i \in 1..Len(written) : written[i] = Stored.file

PreRename == {"built", "dir", "open", "written"}

\* C5 (as claimed): a save interrupted before its rename leaves the
\* container that was stored at the vault path as it was.
C5_CrashBeforeRename ==
    (outcome[1].res = "crashed" /\ outcome[1].at \in PreRename
     /\ sv[1].prev.kind = "full")
        => Stored = sv[1].prev

\* C6: a save interrupted after its rename leaves its own container at
\* the vault path, and a later load with its passphrase returns its vault.
CrashedAfterRename == outcome[1].res = "crashed" /\ outcome[1].at = "renamed"

C6_CrashAfterRename ==
    CrashedAfterRename
        => /\ Stored = Full(sv[1].file)
           /\ (lastLoad.called /\ lastLoad.pw = sv[1].pw)
                => (lastLoad.res.ok /\ lastLoad.res.vault = sv[1].vault)

C6_Witness ==
    /\ CrashedAfterRename
    /\ sv[1].prev.kind = "full"
    /\ lastLoad.called /\ lastLoad.pw = sv[1].pw /\ lastLoad.res.ok

\* C7 (as claimed): a save that returns an error leaves the container that
\* was stored at the vault path as it was.
C7_ErrorKeepsStored ==
    (outcome[1].res = "err" /\ sv[1].prev.kind = "full") => Stored = sv[1].prev

\* C8: load of a container whose version is not 1 fails with the
\* unsupported-version error, having neither derived a key nor decrypted.
Steps(load) == {load.res.steps[i] : i \in 1..Len(load.res.steps)}

C8_VersionGate ==
    (lastLoad.called /\ Stored.kind = "full" /\ Stored.file.version # 1)
        => /\ ~lastLoad.res.ok
           /\ lastLoad.res.err = "UnsupportedVersion"
           /\ Steps(lastLoad) \cap {"derive", "decrypt", "deserialize"} = {}

C8_Witness ==
    /\ lastLoad.called /\ Stored.kind = "full" /\ Stored.file.version # 1
    /\ lastLoad.pw = sv[1].pw
    /\ Stored.file.ciphertext.flips = {}
    /\ lastLoad.res.err = "UnsupportedVersion"

\* C9: no two containers written by saves share a salt, a nonce or the
\* ciphertext bytes, also when the vault and the passphrase are the same.
C9_FreshParameters ==
    \A i, j \in 1..Len(written) :
        i < j => /\ written[i].kdf.salt # written[j].kdf.salt
                 /\ written[i].cipher.nonce # written[j].cipher.nonce
                 /\ written[i].ciphertext # written[j].ciphertext

C9_Witness ==
    /\ Len(written) = 2
    /\ written[1].ciphertext.pt = written[2].ciphertext.pt
    /\ written[1].ciphertext.key.pw = written[2].ciphertext.key.pw
    /\ SaveOk /\ sv[1].prev = Full(written[1])

\* C10 (as claimed): the mode changes from Locked to another mode only in a
\* step in which load succeeded with the passphrase entered and the App
\* took the loaded vault, which is a step of unlock.
LeavesLocked == app.mode = "Locked" /\ app'.mode # "Locked"

C10_LockedUntilUnlock ==
    [][LeavesLocked
          => /\ LoadAt(names, inodes, vault_path, app.unlock_input).ok
             /\ app'.mode = "Normal"
             /\ app'.vault = LoadAt(names, inodes, vault_path, app.unlock_input).vault
             /\ app'.password = app.unlock_input
             /\ lastLoad' = [called |-> TRUE, pw |-> app.unlock_input,
                             res |-> LoadAt(names, inodes, vault_path,
                                            app.unlock_input)]]_vars

C12_IdleLocks ==
    <>[][PollTimeout]_vars => <>(app.mode = "Locked" \/ ~running)

\* The passphrase the stored container was saved under.
StoredPassphrase == Stored.file.ciphertext.key.pw

\* An unlock attempt: the step of App::unlock at the locked screen.
UnlockAttempt == app.mode = "Locked" /\ lastLoad'.called

\* C13: every unlock attempt, whatever attempts came before it, loads the
\* vault file with the passphrase typed and derives the key; when the load
\* fails the mode stays Locked, and when the passphrase is the one the
\* stored container was saved under the load succeeds and the mode becomes
\* Normal.
C13_NoLockout ==
    [][UnlockAttempt
          => /\ lastLoad'.pw = app.unlock_input
             /\ "derive" \in {lastLoad'.res.steps[i] : i \in 1..Len(lastLoad'.res.steps)}
             /\ ~lastLoad'.res.ok => app'.mode = "Locked"
             /\ app.unlock_input = StoredPassphrase
                    => (lastLoad'.res.ok /\ app'.mode = "Normal")]_vars

\* A failed attempt has left the session Locked, and the passphrase of the
\* stored container still loads it.
C13_Witness ==
    /\ lastLoad.called
    /\ ~lastLoad.res.ok
    /\ lastLoad.pw # <<>>
    /\ "derive" \in Steps(lastLoad)
    /\ app.mode = "Locked"
    /\ app.status_message = Status("Incorrect password or vault error", <<>>)
    /\ LoadAt(names, inodes, vault_path, StoredPassphrase).ok

\* C14: an unlock attempt whose load fails changes the status message and
\* the typed unlock input and nothing else of the App: the vault, the
\* filtered entries, the stored passphrase, the mode and the dirty flag
\* are as before.
C14_FailedUnlockFrame ==
    [][(lastLoad'.called /\ ~lastLoad'.res.ok)
          => /\ app'.vault = app.vault
             /\ app'.filtered_entries = app.filtered_entries
             /\ app'.password = app.password
             /\ app'.mode = app.mode
             /\ app'.dirty = app.dirty
             /\ app' = [app EXCEPT !.status_message = app'.status_message,
                                   !.unlock_input = <<>>]]_vars

\* A failed unlock on a session that holds entries and unsaved changes.
C14_Witness ==
    /\ lastLoad.called
    /\ ~lastLoad.res.ok
    /\ app.status_message = Status("Incorrect password or vault error", <<>>)
    /\ app.vault.entries # <<>>
    /\ app.password # <<>>
    /\ app.dirty

\* C15 (as claimed): when load or save has returned, by whichever path,
\* every buffer that held the derived key holds zeros, the hash output the
\* key was copied from among them.
C15_KeyZeroized ==
    /\ lastLoad.called
         => \A b \in KeyMemory("decrypt" \in Steps(lastLoad)) : b.holds = "zeros"
    /\ outcome[1].res \in {"ok", "err"}
         => \A b \in KeyMemory(Derive(sv[1].pw, sv[1].file.kdf).ok) : b.holds = "zeros"

\* The stored container with a changed ciphertext, loaded with the
\* passphrase it was saved under.
TamperedLoad ==
    /\ lastLoad.called
    /\ Stored.kind = "full"
    /\ Stored.file.version = 1
    /\ Stored.file.ciphertext.flips # {}
    /\ lastLoad.pw = StoredPassphrase

\* The container as the save wrote it.
Untampered == Full([Stored.file EXCEPT !.ciphertext.flips = {}])

\* C16: what load returns for a tampered ciphertext under the right
\* passphrase is what it returns for the untouched container under any
\* wrong passphrase, and unlock leaves the App the same in both cases.
C16_SameFailure ==
    TamperedLoad
        => \A wrong \in LoadPassphrases \ {StoredPassphrase} :
               /\ ~lastLoad.res.ok
               /\ lastLoad.res = Load(Untampered, wrong)
               /\ Unlock([app EXCEPT !.unlock_input = lastLoad.pw], lastLoad.res, instant)
                    = Unlock([app EXCEPT !.unlock_input = wrong],
                             Load(Untampered, wrong), instant)

C16_Witness ==
    /\ TamperedLoad
    /\ Stored.file.ciphertext.flips \cap PayloadBits(Stored.file.ciphertext) # {}
    /\ \E wrong \in Passphrases \ {StoredPassphrase} :
           Load(Untampered, wrong).err = lastLoad.res.err

\* C17: once a save has returned Ok, the vault path holds the container of
\* that save and nothing else, whatever saves went before: it is the last
\* container written, a load with the passphrase of that save returns the
\* vault of that save, and a load with any other passphrase, those of
\* earlier saves among them, fails.
C17_WhollyReplaced ==
    SaveOk
        => /\ Stored = Full(sv[1].file)
           /\ sv[1].file = written[Len(written)]
           /\ lastLoad.called
                => IF lastLoad.pw = sv[1].pw
                   THEN lastLoad.res.ok /\ lastLoad.res.vault = sv[1].vault
                   ELSE ~lastLoad.res.ok /\ lastLoad.res.vault = NoVault

\* The save replaced a container of another vault under another
\* passphrase, and that passphrase was tried.
C17_Witness ==
    /\ SaveOk
    /\ Len(written) = 2
    /\ sv[1].prev = Full(written[1])
    /\ written[1].ciphertext.key.pw # sv[1].pw
    /\ written[1].ciphertext.pt # written[2].ciphertext.pt
    /\ lastLoad.called
    /\ lastLoad.pw = written[1].ciphertext.key.pw
    /\ ~lastLoad.res.ok

\* The order of the claim: the container is serialized before the parent
\* directory is created.
SaveOrderClaimed ==
    <<"to_vec", "KdfParams::new", "CipherParams::new", "derive", "encrypt",
      "VaultFile", "to_vec_pretty", "ensure_dir", "File::create", "write_all",
      "rename">>

\* C18 (as claimed): the calls a save has made are at every moment the
\* first ones of: serialize the vault, new KDF and cipher parameters,
\* derive, encrypt, build and serialize the container, create the parent
\* directory, write the temp file, rename.
C18_ClaimedOrder == IsPrefix(sv[1].steps, SaveOrderClaimed)

\* The order found: the container is built, the parent directory is
\* created, and only then is the container serialized.
SaveOrderFound ==
    <<"to_vec", "KdfParams::new", "CipherParams::new", "derive", "encrypt",
      "VaultFile", "ensure_dir", "to_vec_pretty", "File::create", "write_all",
      "rename">>

\* C18 (amended): the calls a save has made are at every moment the first
\* ones of: serialize the vault, new KDF and cipher parameters, derive,
\* encrypt, build the container, create the parent directory, serialize
\* the container, write the temp file, rename; a save that returns Ok has
\* made them all, the rename last; and creating the parent directory when
\* it is there does not fail and changes no file and no directory.
C18_SaveOrder ==
    [][/\ IsPrefix(sv'[1].steps, SaveOrderFound)
       /\ outcome'[1].res = "ok" => sv'[1].steps = SaveOrderFound
       /\ (pc[1] = "built" /\ pc'[1] # "built" /\ dirExists)
            => /\ pc'[1] = "dir" \/ outcome'[1].res = "crashed"
               /\ UNCHANGED <<dirExists, names, inodes>>]_vars

\* A save over a stored container, its directory there, has returned Ok.
C18_Witness ==
    /\ SaveOk
    /\ sv[1].steps = SaveOrderFound
    /\ sv[1].prev.kind = "full"
    /\ dirExists
    /\ Stored = Full(sv[1].file)

\* C19: every container a save wrote has version 1, the KDF algorithm
\* "argon2id" with a salt of 16 bytes, time cost 3, memory cost 65536 and
\* parallelism 4, and the cipher algorithm "chacha20poly1305" with a nonce
\* of 12 bytes.
C19_WrittenParameters ==
    \A i \in 1..Len(written) :
        /\ written[i].version = 1
        /\ written[i].kdf.algorithm = "argon2id"
        /\ written[i].kdf.salt.len = 16
        /\ written[i].kdf.salt.draw > 0
        /\ written[i].kdf.time_cost = 3
        /\ written[i].kdf.memory_cost = 65536
        /\ written[i].kdf.parallelism = 4
        /\ written[i].cipher.algorithm = "chacha20poly1305"
        /\ written[i].cipher.nonce.len = 12
        /\ written[i].cipher.nonce.draw > 0

\* Two containers were written, the second now at the vault path.
C19_Witness ==
    /\ Len(written) = 2
    /\ Stored = Full(written[2])
    /\ written[2].version = 1
    /\ written[2].cipher.nonce.len = 12

\* C20: derive fails with the parameter error for costs that Argon2 does
\* not accept together, so a load of a version-1 container that stores
\* such costs fails with that error, whatever the passphrase, without
\* having decrypted and without a vault.
C20_ParameterError ==
    (lastLoad.called /\ Stored.kind = "full" /\ Stored.file.version = 1
     /\ ~ParamsOk(Stored.file.kdf))
        => /\ ~Derive(lastLoad.pw, Stored.file.kdf).ok
           /\ Derive(lastLoad.pw, Stored.file.kdf).err = "Parameter"
           /\ ~lastLoad.res.ok
           /\ lastLoad.res.err = "Parameter"
           /\ lastLoad.res.vault = NoVault
           /\ Steps(lastLoad) \cap {"decrypt", "deserialize"} = {}

\* The stored memory cost is too low for the four lanes, and the load was
\* tried with the passphrase of the container.
C20_Witness ==
    /\ lastLoad.called
    /\ Stored.kind = "full"
    /\ Stored.file.kdf.parallelism = 4
    /\ Stored.file.kdf.time_cost = 3
    /\ Stored.file.kdf.memory_cost = 16
    /\ lastLoad.pw = StoredPassphrase
    /\ lastLoad.res.err = "Parameter"


SameLetter(c, d) == LowerChar(c) = LowerChar(d)

\* The query occurs in the field somewhere, case apart.
Occurs(field, query) ==
    \E i \in 0..(Len(field) - Len(query)) :
        \A k \in 1..Len(query) : SameLetter(field[i + k], query[k])

\* The fields search looks at: all the text of an entry but its password.
Searched(e) ==
    {e.name, e.username} \cup (IF e.url.some THEN {e.url.v} ELSE {})
        \cup (IF e.notes.some THEN {e.notes.v} ELSE {})
        \cup {e.tags[i] : i \in 1..Len(e.tags)}

Found(e, query) == \E field \in Searched(e) : Occurs(field, query)

\* C22: search with an empty query returns every entry; with any other
\* query it returns, in vault order, exactly the entries in which the query
\* occurs, case apart, in the name, the username, the url, the notes or a
\* tag, and never because of the password.
C22_SearchExact ==
    libCall.fn = "search" =>
        libCall.res = IF libCall.query = <<>>
                      THEN libCall.vault.entries
                      ELSE SelectSeq(libCall.vault.entries,
                                     LAMBDA e : Found(e, libCall.query))


\* The sequence without its element at pos.
Without(entries, pos) ==
    [i \in 1..(Len(entries) - 1) |->
        IF i < pos THEN entries[i] ELSE entries[i + 1]]

\* C23: add_entry appends the entry at the end and raises the count by one;
\* remove_entry with the id of an entry that is there takes out exactly
\* that entry, returns it and keeps the order of the others; with an id no
\* entry has it returns None and leaves the vault as it was.
C23_AddRemove ==
    /\ libCall.fn = "add_entry" =>
          LET before == libCall.vault.entries
              after == libCall.after.entries
          IN  /\ Len(after) = Len(before) + 1
              /\ after[Len(after)] = libCall.entry
              /\ \A i \in 1..Len(before) : after[i] = before[i]
              /\ libCall.after.version = libCall.vault.version
    /\ libCall.fn = "remove_entry" =>
          LET before == libCall.vault.entries
          IN  IF \E i \in 1..Len(before) : before[i].id = libCall.id
              THEN /\ libCall.removed.some
                   /\ libCall.removed.v.id = libCall.id
                   /\ \E pos \in 1..Len(before) :
                          /\ before[pos] = libCall.removed.v
                          /\ libCall.after.entries = Without(before, pos)
                   /\ libCall.after.version = libCall.vault.version
              ELSE /\ libCall.removed = None
                   /\ libCall.after = libCall.vault

\* The first of three entries has been removed, the other two staying in
\* their order.
C23_Witness ==
    /\ libCall.fn = "remove_entry"
    /\ Len(libCall.vault.entries) = 3
    /\ libCall.removed.some
    /\ libCall.removed.v = libCall.vault.entries[1]
    /\ libCall.after.entries = Tail(libCall.vault.entries)


\* C24: no save persists the wiped state a lock leaves: the container at
\* the vault path always holds a vault saved while the session was
\* unlocked, and loads with the master passphrase of the session.
C24_NoWipedSave ==
    /\ [](Stored.kind = "full" /\ Stored.file.ciphertext.key.pw \in AppPassphrases)
    /\ [][written' # written => app.mode # "Locked"]_vars


\* A step of the loop in which the save runs and writes the container.
SaveRuns == written' # written

\* C25: in the interactive loop request_save sets only pending_save and the
\* status message, and every save runs right after a frame drawn while
\* the status message is "Saving...".
C25_SavingFrameFirst ==
    /\ [][SaveRuns => /\ app.status_message = Status("Saving...", <<>>)
                      /\ app.mode = "Normal"]_vars
    /\ [][(app'.pending_save /\ ~app.pending_save)
              => /\ app'.status_message = Status("Saving...", <<>>)
                 /\ app'.vault = app.vault
                 /\ app'.dirty = app.dirty
                 /\ app'.password = app.password
                 /\ UNCHANGED store]_vars

\* The save asked for by :write has run.
C25_Witness ==
    /\ Len(written) = 2
    /\ app.status_message = Status("Vault saved", <<>>)
    /\ ~app.should_quit
    /\ running


\* The loop is left by its break (main.rs:225-227): it stops without a
\* save having been tried in the step.
QuitStep == running /\ ~running' /\ rng' = rng

\* C26: the loop is never left through should_quit while a save is
\* pending: after :wq or :x the save is tried first, and when the loop is
\* then left by its break the vault has been written.
C26_SaveBeforeQuit ==
    /\ [][QuitStep => ~app.pending_save]_vars
    /\ [][(running /\ app.pending_save /\ app.should_quit)
              => (SaveRuns \/ (~running' /\ rng' # rng))]_vars
    /\ [][(QuitStep /\ app.status_message = Status("Vault saved", <<>>))
              => /\ ~app.dirty
                 /\ Stored.kind = "full"
                 /\ Load(Stored, app.password).ok
                 /\ Load(Stored, app.password).vault = app.vault]_vars

\* The loop has been left after :wq: the save ran, then the break.
C26_Witness ==
    /\ ~running
    /\ app.should_quit
    /\ ~app.pending_save
    /\ app.status_message = Status("Vault saved", <<>>)
    /\ Len(written) = 2


QuitLines == {<<"q">>, <<"q", "u", "i", "t">>}
ForcedQuitLines == {<<"q", "!">>, <<"q", "u", "i", "t", "!">>}
SaveQuitLines == {<<"w", "q">>, <<"x">>}

\* Enter is pressed in Command mode on the command line given.
Entered(lines) ==
    /\ app.mode = "Command"
    /\ Trim(app.command_buffer) \in lines
    /\ app' = HandleKeyEvent(app, KeyEnter, uuids + 1, clock + 1)

\* C27: :q and :quit never set should_quit while dirty is true, they set
\* the unsaved-changes status and leave the vault and the flags alone;
\* :q! and :quit! always set should_quit; and should_quit is only ever set
\* with unsaved changes and no save pending by a forced quit.
C27_QuitKeepsUnsaved ==
    /\ [][(Entered(QuitLines) /\ app.dirty)
              => /\ ~app'.should_quit
                 /\ app'.status_message =
                        Status("Unsaved changes! Use :q! to force quit or :wq to save and quit",
                               <<>>)
                 /\ app'.dirty
                 /\ ~app'.pending_save
                 /\ app'.vault = app.vault
                 /\ UNCHANGED <<store, running>>]_vars
    /\ [][Entered(ForcedQuitLines) => app'.should_quit]_vars
    /\ [][(app'.should_quit /\ ~app.should_quit /\ app'.dirty /\ ~app'.pending_save)
              => Entered(ForcedQuitLines)]_vars
    /\ [][(QuitStep /\ app.dirty) => ~app.pending_save /\ app.should_quit]_vars

\* :q has been refused because of unsaved changes, and the loop goes on.
C27_Witness ==
    /\ running
    /\ app.dirty
    /\ ~app.should_quit
    /\ app.mode = "Normal"
    /\ app.status_message =
           Status("Unsaved changes! Use :q! to force quit or :wq to save and quit", <<>>)


\* A step of the loop in which the save is tried and fails.
SaveFails == running /\ app.pending_save /\ rng' # rng /\ written' = written

\* C28: when a save fails in the interactive session the vault in memory,
\* the dirty flag and pending_save keep their values and the session goes
\* on running, so that the save can be tried again.
C28_FailedSaveKeepsSession ==
    [][SaveFails => /\ app'.vault = app.vault
                    /\ app'.dirty = app.dirty
                    /\ app'.pending_save = app.pending_save
                    /\ running']_vars


\* The vault the container at the vault path holds, read with the
\* passphrase it was saved under.
StoredVault == Load(Stored, StoredPassphrase).vault

\* C29: lock writes nothing to disk, also when dirty is true, and drops the
\* entries in memory; a successful unlock after it leaves in memory the
\* vault stored on disk, not the one from before the lock.
C29_LockDiscards ==
    /\ [][(app.mode # "Locked" /\ app'.mode = "Locked")
              => /\ UNCHANGED store
                 /\ app'.vault.entries = <<>>
                 /\ app'.dirty = app.dirty]_vars
    /\ [][(lastLoad'.called /\ lastLoad'.res.ok)
              => /\ UNCHANGED store
                 /\ app'.mode = "Normal"
                 /\ app'.vault = StoredVault]_vars

\* Unsaved changes were made, the App was locked and unlocked again: the
\* vault in memory is the stored one.
C29_Witness ==
    /\ app.mode = "Normal"
    /\ app.status_message = Status("Vault Unlocked", <<>>)
    /\ app.dirty
    /\ app.vault = StoredVault
    /\ app.vault.entries # <<>>


\* C30: in every state whose mode is not Locked, if dirty is false the
\* vault in memory is the vault this session last loaded from or saved to
\* disk, which is the one the stored container holds.
C30_CleanMeansStored ==
    (app.mode # "Locked" /\ ~app.dirty) => app.vault = StoredVault


\* C31: after every App operation the selection index is in range:
\* selected is 0 when filtered_entries is empty, and less than the length
\* of filtered_entries otherwise.
C31_SelectionInRange ==
    IF app.filtered_entries = <<>>
    THEN app.selected = 0
    ELSE app.selected < Len(app.filtered_entries)


\* The positions of the vault whose entry the query selects: all of them
\* for the empty query, else those Entry::matches accepts.
Selected(vault, query) ==
    {i \in 1..Len(vault.entries) :
        query = <<>> \/ EntryMatches(vault.entries[i], query)}

\* C32: after every operation and every handled key, filtered_entries is
\* exactly the list of the ids of the vault entries that match
\* search_query, in vault order: one id for each matching entry, none for
\* any other, none of an entry that is gone.
C32_FilteredExact ==
    LET hits == Selected(app.vault, app.search_query)
        filtered == app.filtered_entries
    IN  /\ Len(filtered) = Cardinality(hits)
        /\ \A k \in 1..Len(filtered) :
              \E i \in hits :
                  /\ app.vault.entries[i].id = filtered[k]
                  /\ Cardinality({j \in hits : j < i}) = k - 1

\* A filter is set that leaves out one of two entries.
C32_Witness ==
    /\ app.search_query # <<>>
    /\ Len(app.vault.entries) >= 2
    /\ Len(app.filtered_entries) = 1
    /\ app.dirty


\* C33: the temporary path a save writes to is never the target path, for
\* any target, so no save writes the target in place; and once a save has
\* returned Ok no file is left at the temporary path.
C33_TempNotTarget ==
    /\ \A w \in Writers :
          pc[w] \in {"open", "written"} => names[vault_path] # fd[w] \/ fd[w] = 0
    /\ \A w \in Writers : pc[w] # "idle" => TempPath # vault_path
    /\ (Idle /\ SaveOk) => names[TempPath] = 0


\* C34: load creates, changes and removes no file: after it, whether it
\* succeeded or failed, the directory and every file are what they were.
C34_LoadReadsOnly ==
    [][lastLoad'.called
          => /\ UNCHANGED <<names, inodes, dirExists>>
             /\ Stored' = Stored]_vars

\* A load has failed on a container that is there, which is left in place.
C34_Witness ==
    /\ lastLoad.called
    /\ ~lastLoad.res.ok
    /\ Stored.kind # "free"
    /\ Len(written) = 2


LockStatus == Status("Vault Locked due to inactivity", <<>>)

\* C35: lock called when the mode is already Locked changes nothing, the
\* partially typed unlock input and the status message included, and lock
\* followed by lock gives the state a single lock gives.
C35_LockIdempotent ==
    /\ app.mode = "Locked" => Lock(app) = app
    /\ Lock(Lock(app)) = Lock(app)

\* The locked App holds a partly typed passphrase and a status that is not
\* the one lock sets, both of which a second lock has to leave.
C35_Witness ==
    /\ app.mode = "Locked"
    /\ app.unlock_input # <<>>
    /\ app.status_message # LockStatus
    /\ Lock(app).unlock_input = app.unlock_input


NameRequired == Status("Name is required", <<>>)

\* C36: save_form with a name that is empty or only whitespace creates no
\* entry, changes no entry, does not set dirty and leaves the mode and the
\* form data as they are; it only sets the status "Name is required".
C36_NameRequired ==
    Trim(app.form_data.name) = <<>>
        => LET after == SaveForm(app, uuids + 1, clock + 1)
           IN  /\ after.vault = app.vault
               /\ after.dirty = app.dirty
               /\ after.mode = app.mode
               /\ after.form_data = app.form_data
               /\ after.status_message = NameRequired
               /\ after = [app EXCEPT !.status_message = NameRequired]

\* Ctrl-s has been pressed in Insert mode on a form whose name is a space:
\* the form is still open and holds what was typed.
C36_Witness ==
    /\ app.mode = "Insert"
    /\ app.form_data.name = <<" ">>
    /\ app.status_message = NameRequired
    /\ ~app.dirty
    /\ Len(app.vault.entries) = 1


\* The same session begun on a vault of two entries, so that an edit has
\* another entry to leave alone.
FormVaults == {Vault(1, <<GitHub, GitLab>>)}

InitForm ==
    /\ \E vault \in FormVaults, password \in AppPassphrases :
           /\ StoredAfterSave(vault, password)
           /\ app = AppNew(password,
                           Load(Full(SaveBuild(vault, password, 0).file), password).vault,
                           0)
    /\ running = TRUE
    /\ uuids = 2
    /\ clock = 2
    /\ instant = 0

SpecForm == InitForm /\ [][NextEdit]_vars

\* What save_form would make of the App as it stands.
FormSaved == SaveForm(app, uuids + 1, clock + 1)

\* C37: save_form with editing_id set changes only the entry with that id:
\* the entry keeps its id, its created timestamp and its position, its
\* modified timestamp is the time of the save, the number of entries is
\* unchanged and every other entry is unchanged; with no editing_id exactly
\* one new entry is appended and the existing entries are unchanged.
C37_FormFrame ==
    LET before == app.vault.entries
        after == FormSaved.vault.entries
        id == app.form_data.editing_id
    IN  Trim(app.form_data.name) # <<>>
            => IF id # 0
               THEN /\ Len(after) = Len(before)
                    /\ \A i \in 1..Len(before) :
                          IF before[i].id = id
                          THEN /\ after[i].id = id
                               /\ after[i].created = before[i].created
                               /\ after[i].modified = clock + 1
                               /\ after[i].name = app.form_data.name
                          ELSE after[i] = before[i]
               ELSE /\ Len(after) = Len(before) + 1
                    /\ SubSeq(after, 1, Len(before)) = before
                    /\ after[Len(after)].id = uuids + 1
                    /\ \A i \in 1..Len(before) : before[i].id # uuids + 1

\* The second of two entries has been edited through the form: it is where
\* it was, with its id and the time of its creation, its modified time is
\* that of the save, and the first entry is as it was.
C37_Witness ==
    /\ Len(app.vault.entries) = 2
    /\ app.mode = "Normal"
    /\ app.status_message = Status("Updated entry '{}'", app.vault.entries[2].name)
    /\ app.vault.entries[1] = GitHub
    /\ app.vault.entries[2].id = GitLab.id
    /\ app.vault.entries[2].created = GitLab.created
    /\ app.vault.entries[2].modified = clock
    /\ app.vault.entries[2].modified > GitLab.modified

====
